---- MODULE Spec2Model ----
(***************************************************************************)
(* Refinement orchestrator of sofa-commander: the in-memory session store, *)
(* the store lock, the five service operations and the assistant           *)
(* transport they drive, one worker (goroutine) per inbound request.       *)
(***************************************************************************)
EXTENDS Integers, Sequences, FiniteSets, TLC

\* ---------------------------------------------------------------- bounds
NumWorkers == 2
MaxOps == 3
MaxSid == 2
MaxLen == 4
MaxRecords == 2
MaxRoles == 3

Workers == 1..NumWorkers

\* ------------------------------------------------------- domain constants
PhaseQuestioning == "QUESTIONING"
PhaseSuggesting == "SUGGESTING"

\* A text is the sequence of its pieces; the pieces the code searches for
\* (fence markers, line breaks, blanks, section markers, ordinal prefixes)
\* are pieces of their own.
\* The pieces of a JSON array of records are its brackets, braces and commas
\* and the strings of each record: the role first, then the prompts.
Garbage == <<"garbage">>
EmptyList == <<"[", "]">>
TwoQuestions == <<"[", "{", "PM", "Q1", "}", ",", "{", "Dev", "Q1", "}", "]">>
\* The opening fence marker (three backquotes and json) and the closing one
\* (three backquotes).
FenceOpen == "[fence]json"
FenceClose == "[fence]"
FencedGarbage == <<FenceOpen, "\n", "garbage", "\n", FenceClose>>

\* Raw assistant replies the transport can hand back.
Texts == {Garbage, EmptyList, TwoQuestions, FencedGarbage}

\* Selected-roles lists a start request can carry.
RoleLists == {<< >>, <<"PM", "Dev">>}

\* The role prompts of the application configuration (role -> prompt), and
\* a configuration without any.
AppRolePrompts == [r \in {"PM", "Dev"} |-> "p"]

NoRolePrompts == [r \in {} |-> "p"]

\* Answer maps a request can carry (keys are role_prompt).
AnswerMaps == {{}, {<<"PM", "Q1">>}}

\* Accepted-suggestion lists an accept request can carry.
AcceptedLists == {<< >>, <<[role |-> "PM", prompt |-> <<"Q1">>]>>}

\* next_phase values an accept request can carry.
NextPhases == {"suggesting", "questioning", ""}

\* current_phase values a finalize request can carry.
CurrentPhases == {"QUESTIONING", "SUGGESTING"}

\* modification_suggestion values a finalize request can carry.
Notes == {<< >>, <<" ">>, <<"fix">>}

\* The markers the finalize prompt asks the reply to carry (the bracketed
\* headings "user story" and "acceptance criteria").
StoryMarker == "[story]"
CriteriaMarker == "[criteria]"

\* The ordinal prefixes of acceptance criteria, in the order tested.
Ordinals == <<"1.", "2.", "3.", "4.", "5.">>

\* Pieces of a reply to the finalize prompt, and the replies of at most
\* MaxLen pieces.
SectionPieces == {StoryMarker, CriteriaMarker, "\n", " ", "1.", "2.", "A"}

SectionTexts == UNION {[1..n -> SectionPieces] : n \in 0..MaxLen}

VARIABLES
    sessions,       \* the map id -> *RefinementSession ("session-k" is key k)
    heap,           \* the RefinementSession objects, by allocation order
    sessionsMutex,  \* the RWMutex: its writer (0 = none) and its readers
    threads,        \* transport: per thread, the messages in order
    assistantID,    \* refinementService.assistantID (0 = "")
    pc,             \* per worker: the statement it is about to execute
    loc,            \* per worker: the locals and arguments of its call
    result,         \* per worker: what its call returned
    ops             \* number of calls issued so far

vars == <<sessions, heap, sessionsMutex, threads, assistantID, pc, loc, result, ops>>

\* ---------------------------------------------------------------- helpers
TerminalStatuses == {"completed", "failed", "cancelled", "expired"}
RunStatuses == {"in_progress"} \cup TerminalStatuses

\* strings.HasPrefix, strings.HasSuffix, strings.TrimPrefix, strings.TrimSuffix
HasPrefix(t, p) == Len(t) >= Len(p) /\ SubSeq(t, 1, Len(p)) = p

HasSuffix(t, p) == Len(t) >= Len(p) /\ SubSeq(t, Len(t) - Len(p) + 1, Len(t)) = p

TrimPrefix(t, p) == IF HasPrefix(t, p) THEN SubSeq(t, Len(p) + 1, Len(t)) ELSE t

TrimSuffix(t, p) == IF HasSuffix(t, p) THEN SubSeq(t, 1, Len(t) - Len(p)) ELSE t

\* The text handed to json.Unmarshal: the fence markers are trimmed when
\* the reply starts with the opening marker and ends with the closing one.
StripFence(raw) ==
    IF HasPrefix(raw, <<FenceOpen>>) /\ HasSuffix(raw, <<FenceClose>>)
    THEN TrimSuffix(TrimPrefix(raw, <<FenceOpen, "\n">>), <<"\n", FenceClose>>)
    ELSE raw

\* strings.TrimSpace
IsSpace(c) == c \in {" ", "\n"}

TrimSpace(t) ==
    LET idx == {i \in 1..Len(t) : ~IsSpace(t[i])} IN
    IF idx = {} THEN << >>
    ELSE SubSeq(t, CHOOSE i \in idx : \A j \in idx : i <= j,
                   CHOOSE i \in idx : \A j \in idx : i >= j)

\* The test of the note without TrimSpace.
BlankEmptyOnly(t) == t = << >>

\* strings.TrimSpace(modificationSuggestion) == ""
Blank(t) == TrimSpace(t) = << >>

\* strings.Index of a one-piece string: the first position, 0 for Go's -1.
Index(t, c) ==
    IF \E i \in 1..Len(t) : t[i] = c
    THEN CHOOSE i \in 1..Len(t) : t[i] = c /\ \A j \in 1..(i - 1) : t[j] # c
    ELSE 0

\* strings.Split(t, "\n")
RECURSIVE Split(_)
Split(t) ==
    LET i == Index(t, "\n") IN
    IF i = 0 THEN <<t>>
    ELSE <<SubSeq(t, 1, i - 1)>> \o Split(SubSeq(t, i + 1, Len(t)))

\* The line starts with one of "1." to "5.".
HasOrdinal(line) == \E k \in 1..Len(Ordinals) : HasPrefix(line, <<Ordinals[k]>>)

\* TrimPrefix(TrimPrefix(TrimPrefix(TrimPrefix(TrimPrefix(line, "1."), "2."), "3."), "4."), "5.")
RECURSIVE TrimOrdinals(_, _)
TrimOrdinals(line, k) ==
    IF k > Len(Ordinals) THEN line
    ELSE TrimOrdinals(TrimPrefix(line, <<Ordinals[k]>>), k + 1)

\* The loop over the lines of the criteria section.
RECURSIVE Criteria(_)
Criteria(lines) ==
    IF lines = << >> THEN << >>
    ELSE LET line == TrimSpace(Head(lines))
             acItem == TrimSpace(TrimOrdinals(line, 1))
         IN  (IF line # << >> /\ HasOrdinal(line) /\ acItem # << >>
              THEN <<acItem>> ELSE << >>) \o Criteria(Tail(lines))

\* The section parse of Finalize.  The slice raw[start+len(marker) : end]
\* panics when the criteria marker comes first.
SectionParse(raw) ==
    LET userStoryStart == Index(raw, StoryMarker)
        userStoryEnd == Index(raw, CriteriaMarker)
    IN  IF userStoryStart # 0 /\ userStoryEnd # 0
        THEN IF userStoryStart + 1 > userStoryEnd
             THEN [panic |-> TRUE, story |-> << >>, criteria |-> << >>]
             ELSE [panic |-> FALSE,
                   story |-> TrimSpace(SubSeq(raw, userStoryStart + 1, userStoryEnd - 1)),
                   criteria |-> Criteria(Split(SubSeq(raw, userStoryEnd + 1, Len(raw))))]
        ELSE [panic |-> FALSE, story |-> raw, criteria |-> << >>]

\* The test after the poll loop comparing with failed only.
RunNotFailed(st) == st # "failed"

\* The test after the poll loop: run.Status == completed.
RunCompleted(st) == st = "completed"

\* encoding/json: the structural pieces, and white space between pieces,
\* which the decoder skips.
Structural == {"[", "]", "{", "}", ","}

SkipSpace(t) == SelectSeq(t, LAMBDA c : ~IsSpace(c))

IsString(c) == c \notin Structural \cup {FenceOpen, FenceClose}

DecodeError == [ok |-> FALSE, val |-> << >>]

\* The records of a comma-separated run of objects; a field the object does
\* not carry keeps its zero value.
RECURSIVE DecodeRecords(_)
DecodeRecords(t) ==
    IF t = << >> \/ Head(t) # "{" THEN DecodeError
    ELSE LET j == Index(t, "}")
             body == SubSeq(t, 2, j - 1)
             rest == SubSeq(t, j + 1, Len(t))
             rec == [role |-> IF body = << >> THEN "" ELSE Head(body),
                     prompt |-> IF body = << >> THEN << >> ELSE Tail(body),
                     answer |-> ""]
         IN  IF j = 0 \/ \E i \in 1..Len(body) : ~IsString(body[i]) THEN DecodeError
             ELSE IF rest = << >> THEN [ok |-> TRUE, val |-> <<rec>>]
             ELSE IF Head(rest) # "," THEN DecodeError
             ELSE LET r == DecodeRecords(Tail(rest)) IN
                  IF r.ok THEN [ok |-> TRUE, val |-> <<rec>> \o r.val] ELSE DecodeError

Decode(text) ==
    LET t == SkipSpace(text) IN
    IF Len(t) >= 2 /\ Head(t) = "[" /\ t[Len(t)] = "]"
    THEN IF Len(t) = 2 THEN [ok |-> TRUE, val |-> << >>]
         ELSE DecodeRecords(SubSeq(t, 2, Len(t) - 1))
    ELSE DecodeError

\* json.Unmarshal([]byte(rawJSON), &newQuestions): the list, and err == nil.
Unmarshal(text) == Decode(text).val

UnmarshalOk(text) == Decode(text).ok

\* The question records a reply can serialise, and the lists of at most
\* MaxRecords of them.
Records == [role : {"PM", "Dev"}, prompt : {<<"Q1">>, <<"Q1", "Q2">>, << >>}, answer : {""}]

RecordLists == UNION {[1..n -> Records] : n \in 0..MaxRecords}

\* The JSON text of a list of records (the answer is omitted when empty).
RECURSIVE MarshalRecords(_)
MarshalRecords(qs) ==
    IF qs = << >> THEN << >>
    ELSE <<"{", Head(qs).role>> \o Head(qs).prompt \o <<"}">>
         \o (IF Len(qs) > 1 THEN <<",">> ELSE << >>) \o MarshalRecords(Tail(qs))

Marshal(qs) == <<"[">> \o MarshalRecords(qs) \o <<"]">>

\* The payload inside a fenced block tagged json, with or without a line
\* break after the opening marker and before the closing one.
Fenced(payload, nlOpen, nlClose) ==
    <<FenceOpen>> \o (IF nlOpen THEN <<"\n">> ELSE << >>) \o payload
    \o (IF nlClose THEN <<"\n">> ELSE << >>) \o <<FenceClose>>

\* A Suggestion has no answer field.
AsSuggestions(qs) == [i \in 1..Len(qs) |-> [role |-> qs[i].role, prompt |-> qs[i].prompt]]

\* A thread keeps the latest assistant reply (<< >> when there is none) and the
\* user messages appended since the last run was created on it.
NewThread == [pending |-> << >>, last |-> << >>]

IdleLoc ==
    [op |-> "none", sid |-> 0, session |-> 0, roles |-> << >>, thread |-> NewThread,
     id |-> 0, parsed |-> << >>, accepted |-> << >>, nextPhase |-> "",
     ctx |-> "none", note |-> << >>, run |-> "none",
     rolePrompts |-> NoRolePrompts, info |-> << >>, responses |-> << >>,
     assistant |-> 0, currentPhase |-> "", answers |-> {}, keys |-> << >>,
     listed |-> << >>]

\* What a call returned: the error and the text its message carries, or
\* "ok" with the returned session and, for AcceptSuggestions, the accepted
\* list it hands back.
NoResult ==
    [op |-> "none", status |-> "none", session |-> 0, accepted |-> << >>, detail |-> << >>,
     story |-> << >>, criteria |-> << >>]

Error(op, e) == [NoResult EXCEPT !.op = op, !.status = e]

\* fmt.Errorf("...: %w, raw response: %s", err, rawJSON)
ParseError(op, rawJSON) == [Error(op, "ParseError") EXCEPT !.detail = rawJSON]

\* fmt.Errorf("run did not complete successfully, status: %s", run.Status)
RunFailed(op, st) == [Error(op, "RunFailed") EXCEPT !.detail = <<st>>]

\* return userStory, ac, raw, nil
FinalizeResult(raw, parsed) ==
    [NoResult EXCEPT !.op = "fin", !.status = "ok", !.detail = raw,
                     !.story = parsed.story, !.criteria = parsed.criteria]

Ok(op, ref, accepted) ==
    [NoResult EXCEPT !.op = op, !.status = "ok", !.session = ref, !.accepted = accepted]

\* The thread a worker's transport calls target.  Until StartSession stores
\* its session, only that call holds the handle of the thread it created,
\* so the thread is kept with the call's locals.
Thread(w) ==
    IF loc[w].op = "start" THEN loc[w].thread ELSE threads[heap[loc[w].session].ThreadID]

\* Worker w's locals become l and its thread becomes th.
Update(w, l, th) ==
    IF l.op = "start"
    THEN /\ loc' = [loc EXCEPT ![w] = [l EXCEPT !.thread = th]]
         /\ UNCHANGED threads
    ELSE /\ loc' = [loc EXCEPT ![w] = l]
         /\ threads' = [threads EXCEPT ![heap[l.session].ThreadID] = th]

\* CreateMessage with role "user".
WithMessage(th, kind) == [th EXCEPT !.pending = Append(@, kind)]

\* The text of the last element of GetAssistantResponse, << >> when the list
\* is empty or the message has no content.
LatestText(w) == Thread(w).last

\* sync.RWMutex
RLock(w) ==
    /\ sessionsMutex.writer = 0
    /\ sessionsMutex' = [sessionsMutex EXCEPT !.readers = @ \cup {w}]

RUnlock(w) == sessionsMutex' = [sessionsMutex EXCEPT !.readers = @ \ {w}]

Lock(w) ==
    /\ sessionsMutex.writer = 0
    /\ sessionsMutex.readers = {}
    /\ sessionsMutex' = [sessionsMutex EXCEPT !.writer = w]

Unlock(w) == sessionsMutex' = [sessionsMutex EXCEPT !.writer = 0]

\* A request is served by a free worker; which one is immaterial, so the
\* lowest free one takes it.
Free(w) ==
    /\ pc[w] = "idle"
    /\ \A v \in Workers : v < w => pc[v] # "idle"
    /\ ops < MaxOps

\* Entry of a service call with arguments l.
Call(w, l, p) ==
    /\ Free(w)
    /\ loc' = [loc EXCEPT ![w] = l]
    /\ pc' = [pc EXCEPT ![w] = p]
    /\ ops' = ops + 1
    /\ result' = [result EXCEPT ![w] = NoResult]
    /\ UNCHANGED <<sessions, heap, sessionsMutex, threads, assistantID>>

\* The call goes on to statement p with locals l and thread th.
Continue(w, p, l, th) ==
    /\ pc' = [pc EXCEPT ![w] = p]
    /\ Update(w, l, th)
    /\ UNCHANGED <<result, sessionsMutex>>

\* The call returns r and its worker is free again; the lock state is set
\* by the caller of Return.
Return(w, r) ==
    /\ pc' = [pc EXCEPT ![w] = "idle"]
    /\ result' = [result EXCEPT ![w] = r]
    /\ loc' = [loc EXCEPT ![w] = IdleLoc]

\* The error return without the deferred Unlock.
FailWithLockKept(w, r) ==
    /\ Return(w, r)
    /\ UNCHANGED <<sessionsMutex, threads, heap>>

\* return nil, err: nothing else changes, except that a deferred Unlock
\* runs.
FailWith(w, r) ==
    /\ Return(w, r)
    /\ IF sessionsMutex.writer = w THEN Unlock(w) ELSE UNCHANGED sessionsMutex
    /\ UNCHANGED <<threads, heap>>

Fail(w, e) == FailWith(w, Error(loc[w].op, e))

\* The structured parse of the latest reply: skipped when there is no
\* reply text, an error when json.Unmarshal rejects the stripped text.
ParseFails(raw) == raw # << >> /\ ~UnmarshalOk(StripFence(raw))

Parsed(raw) == Unmarshal(StripFence(raw))

\* ------------------------------------------------------------------- Init
Init ==
    /\ sessions = << >>
    /\ heap = << >>
    /\ sessionsMutex = [writer |-> 0, readers |-> {}]
    /\ threads = << >>
    /\ assistantID = 0
    /\ pc = [w \in Workers |-> "idle"]
    /\ loc = [w \in Workers |-> IdleLoc]
    /\ result = [w \in Workers |-> NoResult]
    /\ ops = 0

\* ----------------------------------------------------------- the handlers
\* POST /api/refine/start
StartRefinementHandler(w) ==
    \E roles \in RoleLists :
        Call(w, [IdleLoc EXCEPT !.op = "start", !.roles = roles,
                                !.rolePrompts = AppRolePrompts], "assistant")

\* POST /api/refine/submit_answers_and_continue
SubmitAnswersAndContinueHandler(w) ==
    \E sid \in 1..MaxSid :
        Call(w, [IdleLoc EXCEPT !.op = "cont", !.sid = sid,
                                !.rolePrompts = AppRolePrompts], "rlock")

\* POST /api/refine/submit_answers_and_get_suggestions
SubmitAnswersAndGetSuggestionsHandler(w) ==
    \E sid \in 1..MaxSid :
        Call(w, [IdleLoc EXCEPT !.op = "sugg", !.sid = sid,
                                !.rolePrompts = AppRolePrompts], "rlock")

\* POST /api/refine/accept_suggestions
AcceptSuggestionsHandler(w) ==
    \E sid \in 1..MaxSid, acc \in AcceptedLists, np \in NextPhases :
        Call(w, [IdleLoc EXCEPT !.op = "acc", !.sid = sid, !.accepted = acc,
                                !.nextPhase = np], "rlock")

\* POST /api/refine/finalize
FinalizeHandler(w) ==
    \E sid \in 1..MaxSid :
        Call(w, [IdleLoc EXCEPT !.op = "fin", !.sid = sid], "rlock")

\* ----------------------------------------------------------- StartSession
\* 1. Get or Create Assistant; the id is kept on the service.
StartSession_GetOrCreateAssistant(w) ==
    /\ loc[w].op = "start"
    /\ pc[w] = "assistant"
    /\ \/ /\ Fail(w, "TransportError")
          /\ UNCHANGED assistantID
       \/ /\ Continue(w, "thread", [loc[w] EXCEPT !.assistant = 1], Thread(w))
          /\ assistantID' = 1
          /\ UNCHANGED heap
    /\ UNCHANGED <<sessions, ops>>

\* 2. Create Thread
StartSession_CreateThread(w) ==
    /\ loc[w].op = "start"
    /\ pc[w] = "thread"
    /\ \/ Fail(w, "TransportError")
       \/ /\ Continue(w, "msg2", loc[w], NewThread)
          /\ UNCHANGED heap
    /\ UNCHANGED <<sessions, assistantID, ops>>

\* 3. Add the instructions message to the thread
StartSession_AddMessage(w) ==
    /\ loc[w].op = "start"
    /\ pc[w] = "msg2"
    /\ \/ Fail(w, "TransportError")
       \/ /\ Continue(w, "run", loc[w], WithMessage(Thread(w), "instructions"))
          /\ UNCHANGED heap
    /\ UNCHANGED <<sessions, assistantID, ops>>

\* The parse that stores the session before it returns its parse error.
StartSession_ParseStoring(w) ==
    /\ loc[w].op = "start"
    /\ pc[w] = "resp"
    /\ \/ /\ Fail(w, "TransportError")
          /\ UNCHANGED sessions
       \/ LET raw == LatestText(w) IN
          IF ParseFails(raw)
          THEN /\ Return(w, ParseError(loc[w].op, StripFence(raw)))
               /\ threads' = Append(threads, loc[w].thread)
               /\ heap' = Append(heap, [ThreadID |-> Len(threads) + 1,
                                        SelectedRoles |-> loc[w].roles,
                                        RolePrompts |-> loc[w].rolePrompts,
                                        Questions |-> << >>,
                                        Suggestions |-> << >>,
                                        Phase |-> PhaseQuestioning])
               /\ sessions' = Append(sessions, Len(heap) + 1)
               /\ UNCHANGED sessionsMutex
          ELSE /\ Continue(w, "new", [loc[w] EXCEPT !.parsed = Parsed(raw)], Thread(w))
               /\ UNCHANGED <<heap, sessions>>
    /\ UNCHANGED <<assistantID, ops>>

\* GetAssistantResponse, then the structured parse of the latest reply.
StartSession_Parse(w) ==
    /\ loc[w].op = "start"
    /\ pc[w] = "resp"
    /\ \/ Fail(w, "TransportError")
       \/ LET raw == LatestText(w) IN
          IF ParseFails(raw)
          THEN FailWith(w, ParseError(loc[w].op, StripFence(raw)))
          ELSE /\ Continue(w, "new", [loc[w] EXCEPT !.parsed = Parsed(raw)], Thread(w))
               /\ UNCHANGED heap
    /\ UNCHANGED <<sessions, assistantID, ops>>

\* session := &RefinementSession{ID: "session-<len(sessions)+1>", ...}
\* The length of the map is read without the lock.
StartSession_NewSession(w) ==
    /\ loc[w].op = "start"
    /\ pc[w] = "new"
    /\ Continue(w, "lock", [loc[w] EXCEPT !.id = Len(sessions) + 1], Thread(w))
    /\ UNCHANGED <<sessions, heap, assistantID, ops>>

\* sessionsMutex.Lock()
StartSession_Lock(w) ==
    /\ loc[w].op = "start"
    /\ pc[w] = "lock"
    /\ Lock(w)
    /\ pc' = [pc EXCEPT ![w] = "store"]
    /\ UNCHANGED <<sessions, heap, threads, assistantID, loc, result, ops>>

\* The session literal without its Questions field.
StartSession_StoreNoQuestions(w) ==
    /\ loc[w].op = "start"
    /\ pc[w] = "store"
    /\ threads' = Append(threads, loc[w].thread)
    /\ heap' = Append(heap, [ThreadID |-> Len(threads) + 1,
                             SelectedRoles |-> loc[w].roles,
                             RolePrompts |-> loc[w].rolePrompts,
                             Questions |-> << >>,
                             Suggestions |-> << >>,
                             Phase |-> PhaseQuestioning])
    /\ sessions' = IF loc[w].id <= Len(sessions)
                   THEN [sessions EXCEPT ![loc[w].id] = Len(heap) + 1]
                   ELSE Append(sessions, Len(heap) + 1)
    /\ Return(w, Ok("start", Len(heap) + 1, << >>))
    /\ Unlock(w)
    /\ UNCHANGED <<assistantID, ops>>

\* sessions[session.ID] = session; Unlock; return session
StartSession_Store(w) ==
    /\ loc[w].op = "start"
    /\ pc[w] = "store"
    /\ threads' = Append(threads, loc[w].thread)
    /\ heap' = Append(heap, [ThreadID |-> Len(threads) + 1,
                             SelectedRoles |-> loc[w].roles,
                             RolePrompts |-> loc[w].rolePrompts,
                             Questions |-> loc[w].parsed,
                             Suggestions |-> << >>,
                             Phase |-> PhaseQuestioning])
    /\ sessions' = IF loc[w].id <= Len(sessions)
                   THEN [sessions EXCEPT ![loc[w].id] = Len(heap) + 1]
                   ELSE Append(sessions, Len(heap) + 1)
    /\ Return(w, Ok("start", Len(heap) + 1, << >>))
    /\ Unlock(w)
    /\ UNCHANGED <<assistantID, ops>>

\* ----------------------------------------------------------- RunAssistant
\* CreateRun that sends the instruction again when the call fails.
RunAssistant_CreateRunResend(w) ==
    /\ pc[w] = "run"
    /\ \/ /\ Continue(w, "msg2", loc[w], Thread(w))
          /\ UNCHANGED heap
       \/ /\ Continue(w, "poll", [loc[w] EXCEPT !.run = "in_progress"],
                      [Thread(w) EXCEPT !.pending = << >>])
          /\ UNCHANGED heap
    /\ UNCHANGED <<sessions, assistantID, ops>>

\* CreateRun on the worker's thread: the run takes the pending messages.
RunAssistant_CreateRun(w) ==
    /\ pc[w] = "run"
    /\ \/ Fail(w, "TransportError")
       \/ /\ Continue(w, "poll", [loc[w] EXCEPT !.run = "in_progress"],
                      [Thread(w) EXCEPT !.pending = << >>])
          /\ UNCHANGED heap
    /\ UNCHANGED <<sessions, assistantID, ops>>

\* The loop test that goes on polling an expired run.
TerminalNotExpired(st) == st \in TerminalStatuses \ {"expired"}

\* The loop test: the status is completed, failed, cancelled or expired.
Terminal(st) == st \in TerminalStatuses

\* The loop test and the status test after the loop, for the status st that
\* RetrieveRun reported.  A run that completes has left at most one new
\* assistant message on the thread.
Retrieved(w, st) ==
    IF ~Terminal(st)
    THEN UNCHANGED <<pc, result, sessionsMutex, threads, loc, heap>>
    ELSE IF RunCompleted(st)
    THEN /\ \/ Continue(w, "resp", [loc[w] EXCEPT !.run = st], Thread(w))
            \/ \E t \in Texts :
                 Continue(w, "resp", [loc[w] EXCEPT !.run = st],
                          [Thread(w) EXCEPT !.last = t])
         /\ UNCHANGED heap
    ELSE FailWith(w, RunFailed(loc[w].op, st))

\* One iteration of the poll loop: RetrieveRun fails, or reports a status.
RunAssistant_Poll(w) ==
    /\ pc[w] = "poll"
    /\ \/ Fail(w, "TransportError")
       \/ \E st \in RunStatuses : Retrieved(w, st)
    /\ UNCHANGED <<sessions, assistantID, ops>>

\* -------------------------------------------------------- session lookup
KeyedOps == {"cont", "sugg", "acc", "fin"}

\* The continuation that takes an accept straight to its instruction.
AfterLookupNoContext(op) ==
    CASE op \in {"cont", "sugg"} -> "lock"
      [] op = "acc" -> "msg2"
      [] OTHER -> "ctx"

\* Where each operation continues once the session is found.
AfterLookup(op) ==
    CASE op \in {"cont", "sugg"} -> "lock"
      [] op = "acc" -> "msg1"
      [] OTHER -> "ctx"

\* sessionsMutex.RLock()
Lookup_RLock(w) ==
    /\ loc[w].op \in KeyedOps
    /\ pc[w] = "rlock"
    /\ RLock(w)
    /\ pc' = [pc EXCEPT ![w] = "lookup"]
    /\ UNCHANGED <<sessions, heap, threads, assistantID, loc, result, ops>>

\* Lookup with the not-found return taken before the RUnlock.
LookupLeak(w) ==
    /\ loc[w].op \in KeyedOps
    /\ pc[w] = "lookup"
    /\ IF loc[w].sid \in DOMAIN sessions
       THEN /\ RUnlock(w)
            /\ loc' = [loc EXCEPT ![w].session = sessions[loc[w].sid]]
            /\ pc' = [pc EXCEPT ![w] = AfterLookup(loc[w].op)]
            /\ UNCHANGED result
       ELSE /\ Return(w, Error(loc[w].op, "NotFound"))
            /\ UNCHANGED sessionsMutex
    /\ UNCHANGED <<sessions, heap, threads, assistantID, ops>>

\* Lookup that does not find the id stored last.
LookupMiss(w) ==
    /\ loc[w].op \in KeyedOps
    /\ pc[w] = "lookup"
    /\ RUnlock(w)
    /\ IF loc[w].sid \in DOMAIN sessions \ {Len(sessions)}
       THEN /\ loc' = [loc EXCEPT ![w].session = sessions[loc[w].sid]]
            /\ pc' = [pc EXCEPT ![w] = AfterLookup(loc[w].op)]
            /\ UNCHANGED result
       ELSE Return(w, Error(loc[w].op, "NotFound"))
    /\ UNCHANGED <<sessions, heap, threads, assistantID, ops>>

\* session, ok := sessions[sessionID]; RUnlock; if !ok return "not found"
Lookup(w) ==
    /\ loc[w].op \in KeyedOps
    /\ pc[w] = "lookup"
    /\ RUnlock(w)
    /\ IF loc[w].sid \in DOMAIN sessions
       THEN /\ loc' = [loc EXCEPT ![w].session = sessions[loc[w].sid]]
            /\ pc' = [pc EXCEPT ![w] = AfterLookup(loc[w].op)]
            /\ UNCHANGED result
       ELSE Return(w, Error(loc[w].op, "NotFound"))
    /\ UNCHANGED <<sessions, heap, threads, assistantID, ops>>

\* ------------------- SubmitAnswersAndContinue / SubmitAnswersAndGetSuggestions
SubmitOps == {"cont", "sugg"}

\* The questions with the answers of the request recorded in them.
RecordAnswers(qs, answers) ==
    [i \in 1..Len(qs) |->
        IF \E j \in 1..Len(qs[i].prompt) : <<qs[i].role, qs[i].prompt[j]>> \in answers
        THEN [qs[i] EXCEPT !.answer = "a"]
        ELSE qs[i]]

\* userResponse is non-blank iff some prompt of some question has an answer.
HasUserResponse(qs, answers) ==
    \E i \in 1..Len(qs) : \E j \in 1..Len(qs[i].prompt) :
        <<qs[i].role, qs[i].prompt[j]>> \in answers

\* sessionsMutex.Lock(); defer sessionsMutex.Unlock()
Submit_Lock(w) ==
    /\ loc[w].op \in SubmitOps
    /\ pc[w] = "lock"
    /\ Lock(w)
    /\ pc' = [pc EXCEPT ![w] = "answers"]
    /\ UNCHANGED <<sessions, heap, threads, assistantID, loc, result, ops>>

\* The loop that records the answers in the stored questions.
Submit_RecordAnswers(w) ==
    /\ loc[w].op \in SubmitOps
    /\ pc[w] = "answers"
    /\ \E answers \in AnswerMaps :
         LET qs == heap[loc[w].session].Questions IN
         /\ heap' = [heap EXCEPT ![loc[w].session].Questions = RecordAnswers(qs, answers)]
         /\ pc' = [pc EXCEPT ![w] = IF HasUserResponse(qs, answers) THEN "msg1" ELSE "msg2"]
    /\ UNCHANGED <<sessions, sessionsMutex, threads, assistantID, loc, result, ops>>

\* AddMessageToThread(session.ThreadID, userResponse)
Submit_AddUserResponse(w) ==
    /\ loc[w].op \in SubmitOps
    /\ pc[w] = "msg1"
    /\ \/ Fail(w, "TransportError")
       \/ /\ Continue(w, "msg2", loc[w], WithMessage(Thread(w), "answers"))
          /\ UNCHANGED heap
    /\ UNCHANGED <<sessions, assistantID, ops>>

\* The phase key each submit operation builds its instruction for.
SubmitPhaseKey(op) == IF op = "cont" THEN "questioning" ELSE "suggesting"

\* AddMessageToThread(session.ThreadID, instructionMessage)
Submit_AddInstruction(w) ==
    /\ loc[w].op \in SubmitOps
    /\ pc[w] = "msg2"
    /\ \/ Fail(w, "TransportError")
       \/ /\ Continue(w, "run", loc[w], WithMessage(Thread(w), SubmitPhaseKey(loc[w].op)))
          /\ UNCHANGED heap
    /\ UNCHANGED <<sessions, assistantID, ops>>

\* GetAssistantResponse, the structured parse, then
\* session.Questions = newQuestions (the phase is left as it is).
SubmitAnswersAndContinue_Commit(w) ==
    /\ loc[w].op = "cont"
    /\ pc[w] = "resp"
    /\ \/ Fail(w, "TransportError")
       \/ LET raw == LatestText(w) IN
          IF ParseFails(raw)
          THEN FailWith(w, ParseError(loc[w].op, StripFence(raw)))
          ELSE /\ heap' = [heap EXCEPT ![loc[w].session].Questions = Parsed(raw)]
               /\ Unlock(w)
               /\ Return(w, Ok(loc[w].op, loc[w].session, << >>))
               /\ UNCHANGED threads
    /\ UNCHANGED <<sessions, assistantID, ops>>

\* The commit without session.Questions = nil.
SubmitAnswersAndGetSuggestions_CommitKeep(w) ==
    /\ loc[w].op = "sugg"
    /\ pc[w] = "resp"
    /\ \/ Fail(w, "TransportError")
       \/ LET raw == LatestText(w) IN
          IF ParseFails(raw)
          THEN FailWith(w, ParseError(loc[w].op, StripFence(raw)))
          ELSE /\ heap' = [heap EXCEPT ![loc[w].session] =
                              [@ EXCEPT !.Suggestions = AsSuggestions(Parsed(raw)),
                                        !.Phase = PhaseSuggesting]]
               /\ Unlock(w)
               /\ Return(w, Ok(loc[w].op, loc[w].session, << >>))
               /\ UNCHANGED threads
    /\ UNCHANGED <<sessions, assistantID, ops>>

\* GetAssistantResponse, the structured parse, then
\* session.Suggestions = suggestions; Questions = nil; Phase = SUGGESTING.
SubmitAnswersAndGetSuggestions_Commit(w) ==
    /\ loc[w].op = "sugg"
    /\ pc[w] = "resp"
    /\ \/ Fail(w, "TransportError")
       \/ LET raw == LatestText(w) IN
          IF ParseFails(raw)
          THEN FailWith(w, ParseError(loc[w].op, StripFence(raw)))
          ELSE /\ heap' = [heap EXCEPT ![loc[w].session] =
                              [@ EXCEPT !.Suggestions = AsSuggestions(Parsed(raw)),
                                        !.Questions = << >>,
                                        !.Phase = PhaseSuggesting]]
               /\ Unlock(w)
               /\ Return(w, Ok(loc[w].op, loc[w].session, << >>))
               /\ UNCHANGED threads
    /\ UNCHANGED <<sessions, assistantID, ops>>

\* ------------------------------------------------------ AcceptSuggestions
\* acceptedText without the line that says nothing was accepted.
AcceptedTextSilent(accepted) == "accepted"

\* acceptedText names the accepted suggestions, or says that none was.
AcceptedText(accepted) == IF Len(accepted) = 0 THEN "accepted:none" ELSE "accepted"

\* The test that takes only "questioning" for questioning.
AcceptPhaseKeyStrict(nextPhase) ==
    IF nextPhase = "questioning" THEN "questioning" ELSE "suggesting"

\* nextPhase == "suggesting" selects suggesting, anything else questioning.
AcceptPhaseKey(nextPhase) == IF nextPhase = "suggesting" THEN "suggesting" ELSE "questioning"

\* AddMessageToThread(session.ThreadID, acceptedText)
AcceptSuggestions_AddAccepted(w) ==
    /\ loc[w].op = "acc"
    /\ pc[w] = "msg1"
    /\ \/ Fail(w, "TransportError")
       \/ /\ Continue(w, "msg2", loc[w], WithMessage(Thread(w), AcceptedText(loc[w].accepted)))
          /\ UNCHANGED heap
    /\ UNCHANGED <<sessions, assistantID, ops>>

\* AddMessageToThread(session.ThreadID, instructionMessage)
AcceptSuggestions_AddInstruction(w) ==
    /\ loc[w].op = "acc"
    /\ pc[w] = "msg2"
    /\ \/ Fail(w, "TransportError")
       \/ /\ Continue(w, "run", loc[w],
                      WithMessage(Thread(w), AcceptPhaseKey(loc[w].nextPhase)))
          /\ UNCHANGED heap
    /\ UNCHANGED <<sessions, assistantID, ops>>

\* GetAssistantResponse, then the structured parse of the latest reply.
AcceptSuggestions_Parse(w) ==
    /\ loc[w].op = "acc"
    /\ pc[w] = "resp"
    /\ \/ Fail(w, "TransportError")
       \/ LET raw == LatestText(w) IN
          IF ParseFails(raw)
          THEN FailWith(w, ParseError(loc[w].op, StripFence(raw)))
          ELSE /\ Continue(w, "lock", [loc[w] EXCEPT !.parsed = Parsed(raw)], Thread(w))
               /\ UNCHANGED heap
    /\ UNCHANGED <<sessions, assistantID, ops>>

\* sessionsMutex.Lock()
AcceptSuggestions_Lock(w) ==
    /\ loc[w].op = "acc"
    /\ pc[w] = "lock"
    /\ Lock(w)
    /\ pc' = [pc EXCEPT ![w] = "commit"]
    /\ UNCHANGED <<sessions, heap, threads, assistantID, loc, result, ops>>

\* The commit without the assignments that clear the other list.
AcceptSuggestions_CommitKeep(w) ==
    /\ loc[w].op = "acc"
    /\ pc[w] = "commit"
    /\ heap' = [heap EXCEPT ![loc[w].session] =
                   IF AcceptPhaseKey(loc[w].nextPhase) = "questioning"
                   THEN [@ EXCEPT !.Questions = loc[w].parsed,
                                  !.Phase = PhaseQuestioning]
                   ELSE [@ EXCEPT !.Suggestions = AsSuggestions(loc[w].parsed),
                                  !.Phase = PhaseSuggesting]]
    /\ Unlock(w)
    /\ Return(w, Ok("acc", loc[w].session, loc[w].accepted))
    /\ UNCHANGED <<sessions, threads, assistantID, ops>>

\* The locked assignments of questions, suggestions and phase; Unlock.
AcceptSuggestions_Commit(w) ==
    /\ loc[w].op = "acc"
    /\ pc[w] = "commit"
    /\ heap' = [heap EXCEPT ![loc[w].session] =
                   IF AcceptPhaseKey(loc[w].nextPhase) = "questioning"
                   THEN [@ EXCEPT !.Questions = loc[w].parsed,
                                  !.Suggestions = << >>,
                                  !.Phase = PhaseQuestioning]
                   ELSE [@ EXCEPT !.Questions = << >>,
                                  !.Suggestions = AsSuggestions(loc[w].parsed),
                                  !.Phase = PhaseSuggesting]]
    /\ Unlock(w)
    /\ Return(w, Ok("acc", loc[w].session, loc[w].accepted))
    /\ UNCHANGED <<sessions, threads, assistantID, ops>>

\* --------------------------------------------------------------- Finalize
\* Suggestion keys a finalize request can carry.
SuggestionKeySets == {{}, {<<"PM", "Q1">>}}

\* Another worker holds the write lock while working on the same session
\* object, so an unlocked read of its questions races with that worker's
\* writes.
RacyRead(w) ==
    \E v \in Workers \ {w} :
        /\ sessionsMutex.writer = v
        /\ loc[v].op \in SubmitOps \cup {"acc"}
        /\ loc[v].session = loc[w].session

\* 1. Which context message the supplied phase, answers and keys select.
FinalizeContext(s, currentPhase, answers, keys) ==
    IF currentPhase = "QUESTIONING" /\ answers # {}
    THEN IF HasUserResponse(s.Questions, answers) THEN "answers" ELSE "none"
    ELSE IF currentPhase = "SUGGESTING" /\ keys # {}
         THEN "accepted"
         ELSE "none"

\* The context step writing the supplied answers into the stored questions,
\* as the submit operations do.
Finalize_ContextRecording(w) ==
    /\ loc[w].op = "fin"
    /\ pc[w] = "ctx"
    /\ \E cp \in CurrentPhases, answers \in AnswerMaps, keys \in SuggestionKeySets,
          note \in Notes :
         LET c == FinalizeContext(heap[loc[w].session], cp, answers, keys) IN
         /\ Continue(w, IF c = "none" THEN "note" ELSE "msg1",
                     [loc[w] EXCEPT !.ctx = c, !.note = note], Thread(w))
         /\ heap' = [heap EXCEPT ![loc[w].session].Questions =
                         IF cp = "QUESTIONING" THEN RecordAnswers(@, answers) ELSE @]
    /\ UNCHANGED <<sessions, assistantID, ops>>

\* The unlocked reads of session.Questions and session.Suggestions.
Finalize_Context(w) ==
    /\ loc[w].op = "fin"
    /\ pc[w] = "ctx"
    /\ \E cp \in CurrentPhases, answers \in AnswerMaps, keys \in SuggestionKeySets,
          note \in Notes :
         \E c \in IF RacyRead(w) /\ cp = "QUESTIONING" /\ answers # {}
                  THEN {"answers", "none"}
                  ELSE {FinalizeContext(heap[loc[w].session], cp, answers, keys)} :
            Continue(w, IF c = "none" THEN "note" ELSE "msg1",
                     [loc[w] EXCEPT !.ctx = c, !.note = note], Thread(w))
    /\ UNCHANGED <<sessions, heap, assistantID, ops>>

\* AddMessageToThread(session.ThreadID, userResponse or acceptedText)
Finalize_AddContext(w) ==
    /\ loc[w].op = "fin"
    /\ pc[w] = "msg1"
    /\ \/ Fail(w, "TransportError")
       \/ /\ Continue(w, "note", [loc[w] EXCEPT !.ctx = "none"],
                      WithMessage(Thread(w), loc[w].ctx))
          /\ UNCHANGED heap
    /\ UNCHANGED <<sessions, assistantID, ops>>

\* A non-blank modification suggestion is added to the thread.
Finalize_AddModification(w) ==
    /\ loc[w].op = "fin"
    /\ pc[w] = "note"
    /\ IF Blank(loc[w].note)
       THEN /\ Continue(w, "msg2", [loc[w] EXCEPT !.note = << >>], Thread(w))
            /\ UNCHANGED heap
       ELSE \/ Fail(w, "TransportError")
            \/ /\ Continue(w, "msg2", [loc[w] EXCEPT !.note = << >>],
                            WithMessage(Thread(w), "note"))
               /\ UNCHANGED heap
    /\ UNCHANGED <<sessions, assistantID, ops>>

\* AddMessageToThread(session.ThreadID, prompt)
Finalize_AddPrompt(w) ==
    /\ loc[w].op = "fin"
    /\ pc[w] = "msg2"
    /\ \/ Fail(w, "TransportError")
       \/ /\ Continue(w, "run", loc[w], WithMessage(Thread(w), "finalize"))
          /\ UNCHANGED heap
    /\ UNCHANGED <<sessions, assistantID, ops>>

\* GetAssistantResponse; no assistant content is an error, anything else
\* goes through the section parse and is returned as story, criteria and
\* raw text.  A panic ends the request without a result.
Finalize_Result(w) ==
    /\ loc[w].op = "fin"
    /\ pc[w] = "resp"
    /\ \/ Fail(w, "TransportError")
       \/ LET raw == LatestText(w) IN
          IF raw = << >>
          THEN Fail(w, "NoContent")
          ELSE IF SectionParse(raw).panic
          THEN FailWith(w, [Error("fin", "panic") EXCEPT !.detail = raw])
          ELSE /\ Return(w, FinalizeResult(raw, SectionParse(raw)))
               /\ UNCHANGED <<sessionsMutex, threads, heap>>
    /\ UNCHANGED <<sessions, assistantID, ops>>

\* ------------------------------------------------------------------- Next
Next ==
    \E w \in Workers :
        \/ StartRefinementHandler(w)
        \/ StartSession_GetOrCreateAssistant(w)
        \/ StartSession_CreateThread(w)
        \/ StartSession_AddMessage(w)
        \/ StartSession_Parse(w)
        \/ StartSession_NewSession(w)
        \/ StartSession_Lock(w)
        \/ StartSession_Store(w)
        \/ RunAssistant_CreateRun(w)
        \/ RunAssistant_Poll(w)
        \/ SubmitAnswersAndContinueHandler(w)
        \/ SubmitAnswersAndGetSuggestionsHandler(w)
        \/ AcceptSuggestionsHandler(w)
        \/ FinalizeHandler(w)
        \/ Lookup_RLock(w)
        \/ Lookup(w)
        \/ Submit_Lock(w)
        \/ Submit_RecordAnswers(w)
        \/ Submit_AddUserResponse(w)
        \/ Submit_AddInstruction(w)
        \/ SubmitAnswersAndContinue_Commit(w)
        \/ SubmitAnswersAndGetSuggestions_Commit(w)
        \/ AcceptSuggestions_AddAccepted(w)
        \/ AcceptSuggestions_AddInstruction(w)
        \/ AcceptSuggestions_Parse(w)
        \/ AcceptSuggestions_Lock(w)
        \/ AcceptSuggestions_Commit(w)
        \/ Finalize_Context(w)
        \/ Finalize_AddContext(w)
        \/ Finalize_AddModification(w)
        \/ Finalize_AddPrompt(w)
        \/ Finalize_Result(w)

Spec == Init /\ [][Next]_vars

\* ------------------------------------------------- the section parse alone
\* A finalize that has run its turn on the thread of the one stored session
\* and is about to read the reply, for every reply of SectionTexts.
InitSection ==
    /\ sessions = <<1>>
    /\ heap = <<[ThreadID |-> 1, SelectedRoles |-> <<"PM", "Dev">>,
                 RolePrompts |-> AppRolePrompts,
                 Questions |-> << >>, Suggestions |-> << >>, Phase |-> PhaseQuestioning]>>
    /\ sessionsMutex = [writer |-> 0, readers |-> {}]
    /\ \E raw \in SectionTexts : threads = <<[pending |-> << >>, last |-> raw]>>
    /\ assistantID = 1
    /\ pc = [w \in Workers |-> IF w = 1 THEN "resp" ELSE "idle"]
    /\ loc = [w \in Workers |->
                IF w = 1
                THEN [IdleLoc EXCEPT !.op = "fin", !.sid = 1, !.session = 1,
                                     !.run = "completed"]
                ELSE IdleLoc]
    /\ result = [w \in Workers |-> NoResult]
    /\ ops = 1

NextSection == \E w \in Workers : Finalize_Result(w)

SpecSection == InitSection /\ [][NextSection]_vars

\* ---------------------------------------------- the structured parse alone
\* A start or a continue that has run its turn and is about to read a reply
\* that is a fenced serialisation of a list of RecordLists.
InitFence ==
    \E l \in RecordLists, nlOpen \in BOOLEAN, nlClose \in BOOLEAN, op \in {"start", "cont"} :
        LET reply == [pending |-> << >>, last |-> Fenced(Marshal(l), nlOpen, nlClose)] IN
        /\ sessions = <<1>>
        /\ heap = <<[ThreadID |-> 1, SelectedRoles |-> <<"PM", "Dev">>,
                 RolePrompts |-> AppRolePrompts,
                     Questions |-> << >>, Suggestions |-> << >>, Phase |-> PhaseQuestioning]>>
        /\ sessionsMutex = [writer |-> IF op = "cont" THEN 1 ELSE 0, readers |-> {}]
        /\ threads = <<IF op = "cont" THEN reply ELSE NewThread>>
        /\ assistantID = 1
        /\ pc = [w \in Workers |-> IF w = 1 THEN "resp" ELSE "idle"]
        /\ loc = [w \in Workers |->
                    IF w # 1 THEN IdleLoc
                    ELSE IF op = "cont"
                    THEN [IdleLoc EXCEPT !.op = "cont", !.sid = 1, !.session = 1,
                                         !.run = "completed"]
                    ELSE [IdleLoc EXCEPT !.op = "start", !.roles = <<"PM", "Dev">>,
                                         !.rolePrompts = AppRolePrompts,
                                         !.thread = reply, !.run = "completed"]]
        /\ result = [w \in Workers |-> NoResult]
        /\ ops = 1

NextFence ==
    \E w \in Workers :
        \/ StartSession_Parse(w)
        \/ StartSession_NewSession(w)
        \/ StartSession_Lock(w)
        \/ StartSession_Store(w)
        \/ SubmitAnswersAndContinue_Commit(w)

SpecFence == InitFence /\ [][NextFence]_vars

\* ------------------------------------------------ the instruction texts
\* The roles a request can select or a configuration can have a prompt for.
Roles == {"PM", "Dev", "QA"}

\* Selected-roles lists of at most MaxRoles roles.
SelectedLists == UNION {[1..n -> Roles] : n \in 0..MaxRoles}

\* Role-prompt maps: a prompt for some of the roles.
RolePromptMaps == UNION {[K -> {"p"}] : K \in SUBSET Roles}

\* additional_info values a request can carry.
Infos == {<< >>, <<" ">>, <<"more">>, <<"\n", "more", " ">>}

\* The fixed parts of an instruction: the heading of the supplementary
\* information, the sentence that introduces the role lines (in a start,
\* the assistant template up to its "Roles:" line), the heading of the
\* format example and the closing directive.
InfoHeader == "[info]"
Lead == "[roles]"
ExampleHeader == "[example]"

Directive(op) == IF op = "sugg" THEN "[no questions, array only]" ELSE "[array only]"

\* The roles the configured format examples are for, in configuration order.
ExampleRoles == <<"PM", "Dev", "QA">>

\* Role lines written in the order of the configuration.
RECURSIVE RoleLinesByMap(_, _)
RoleLinesByMap(selectedRoles, rolePrompts) ==
    LET known == SelectSeq(ExampleRoles,
                           LAMBDA r : r \in DOMAIN rolePrompts
                                      /\ \E i \in 1..Len(selectedRoles) : selectedRoles[i] = r)
    IN  IF known = << >> THEN << >>
        ELSE <<"-", Head(known), rolePrompts[Head(known)], "\n">>
             \o RoleLinesByMap(SelectSeq(selectedRoles, LAMBDA r : r # Head(known)), rolePrompts)

\* for _, role := range selectedRoles { if prompt, ok := rolePrompts[role]; ok {...} }
RECURSIVE RoleLines(_, _)
RoleLines(selectedRoles, rolePrompts) ==
    IF selectedRoles = << >> THEN << >>
    ELSE (IF Head(selectedRoles) \in DOMAIN rolePrompts
          THEN <<"-", Head(selectedRoles), rolePrompts[Head(selectedRoles)], "\n">>
          ELSE << >>) \o RoleLines(Tail(selectedRoles), rolePrompts)

\* phaseDesc: StartSession and the submits leave it empty when no role is
\* selected, AcceptSuggestions does not.
PhaseDesc(op, phaseKey, selectedRoles) ==
    IF op # "acc" /\ selectedRoles = << >> THEN << >> ELSE <<phaseKey>>

\* The examples of the selected roles: for each example, one copy for each
\* selected role equal to its role.
RECURSIVE FilteredExamples(_, _)
FilteredExamples(arr, selectedRoles) ==
    IF arr = << >> THEN << >>
    ELSE SelectSeq(selectedRoles, LAMBDA r : r = Head(arr))
         \o FilteredExamples(Tail(arr), selectedRoles)

\* The instruction with the supplementary information after it.
InstructionInfoLast(op, phaseKey, selectedRoles, rolePrompts, info) ==
    <<Lead>> \o RoleLines(selectedRoles, rolePrompts) \o <<"\n">>
    \o PhaseDesc(op, phaseKey, selectedRoles) \o <<"\n", ExampleHeader>>
    \o FilteredExamples(ExampleRoles, selectedRoles) \o <<"\n", Directive(op)>>
    \o (IF op # "start" /\ ~Blank(info)
        THEN <<"\n", "\n", InfoHeader, "\n">> \o info ELSE << >>)

\* instructionMessage (assistantInstructions in StartSession): the role
\* lines, the phase description, the format example and the directive,
\* with the supplementary information put first when it is not blank.
Instruction(op, phaseKey, selectedRoles, rolePrompts, info) ==
    LET body == <<Lead>> \o RoleLines(selectedRoles, rolePrompts) \o <<"\n">>
                \o PhaseDesc(op, phaseKey, selectedRoles) \o <<"\n", ExampleHeader>>
                \o FilteredExamples(ExampleRoles, selectedRoles) \o <<"\n", Directive(op)>>
    IN  IF op # "start" /\ ~Blank(info)
        THEN <<InfoHeader, "\n">> \o info \o <<"\n", "\n">> \o body
        ELSE body

\* The selected roles, the role prompts and the phase key an operation
\* builds its instruction from.
SelectedOf(w) ==
    IF loc[w].op = "start" THEN loc[w].roles ELSE heap[loc[w].session].SelectedRoles

RolePromptsOf(w) ==
    IF loc[w].op = "acc" THEN heap[loc[w].session].RolePrompts ELSE loc[w].rolePrompts

PhaseKeyOf(w) ==
    IF loc[w].op = "acc" THEN AcceptPhaseKey(loc[w].nextPhase)
    ELSE IF loc[w].op = "start" THEN "questioning" ELSE SubmitPhaseKey(loc[w].op)

\* The instruction is built and added to the thread, with its text.
AddInstructionText(w) ==
    /\ loc[w].op \in {"start", "cont", "sugg", "acc"}
    /\ pc[w] = "msg2"
    /\ \/ Fail(w, "TransportError")
       \/ /\ Continue(w, "run", [loc[w] EXCEPT !.info = << >>],
                       WithMessage(Thread(w),
                                   Instruction(loc[w].op, PhaseKeyOf(w), SelectedOf(w),
                                               RolePromptsOf(w), loc[w].info)))
          /\ UNCHANGED heap
    /\ UNCHANGED <<sessions, assistantID, ops>>

\* An operation that is about to build its instruction, for every selected
\* roles list, role-prompt map and supplementary information.
InitInstruction ==
    \E op \in {"start", "cont", "sugg", "acc"}, sel \in SelectedLists,
       rp \in RolePromptMaps, info \in Infos, np \in NextPhases :
        /\ sessions = <<1>>
        /\ heap = <<[ThreadID |-> 1, SelectedRoles |-> sel,
                     RolePrompts |-> IF op = "acc" THEN rp ELSE AppRolePrompts,
                     Questions |-> << >>, Suggestions |-> << >>, Phase |-> PhaseQuestioning]>>
        /\ sessionsMutex = [writer |-> IF op \in SubmitOps THEN 1 ELSE 0, readers |-> {}]
        /\ threads = <<NewThread>>
        /\ assistantID = 1
        /\ pc = [w \in Workers |-> IF w = 1 THEN "msg2" ELSE "idle"]
        /\ loc = [w \in Workers |->
                    IF w # 1 THEN IdleLoc
                    ELSE IF op = "start"
                    THEN [IdleLoc EXCEPT !.op = op, !.roles = sel, !.rolePrompts = rp]
                    ELSE IF op = "acc"
                    THEN [IdleLoc EXCEPT !.op = op, !.sid = 1, !.session = 1,
                                         !.nextPhase = np, !.info = info]
                    ELSE [IdleLoc EXCEPT !.op = op, !.sid = 1, !.session = 1,
                                         !.rolePrompts = rp, !.info = info]]
        /\ result = [w \in Workers |-> NoResult]
        /\ ops = 1

NextInstruction == \E w \in Workers : AddInstructionText(w)

SpecInstruction == InitInstruction /\ [][NextInstruction]_vars

\* ------------------------------------------------- the responses of a thread
\* The messages a thread can hold: the author and the text content (<< >>
\* for a message without content), and the threads of at most MaxLen
\* messages, oldest first.
Messages == [role : {"user", "assistant"}, content : {<< >>, <<"x">>, <<"y">>}]

MessageLists == UNION {[1..n -> Messages] : n \in 0..MaxLen}

\* Reverse of a sequence.
Reverse(s) == [i \in 1..Len(s) |-> s[Len(s) + 1 - i]]

\* client.ListMessage with no limit, order or cursor: the first page of the
\* thread's messages, newest first (a thread of MaxLen messages fits the
\* page).
ListMessage(messages) == Reverse(messages)

\* GetAssistantResponse without the reversing loop.
AssistantMessagesNewestFirst(listed) == SelectSeq(listed, LAMBDA m : m.role = "assistant")

\* The assistant messages of the listing, then reversed.
AssistantMessages(listed) == Reverse(SelectSeq(listed, LAMBDA m : m.role = "assistant"))

\* latest := assistantMessages[len(assistantMessages)-1]; its text, << >>
\* when there is no message or no content.
Latest(assistantMessages) ==
    IF assistantMessages = << >> THEN << >>
    ELSE assistantMessages[Len(assistantMessages)].content

\* GetAssistantResponse(threadID) on a thread held with all its messages.
GetAssistantResponse(w) ==
    /\ loc[w].op \in {"start", "cont", "sugg", "acc", "fin"}
    /\ pc[w] = "resp"
    /\ \/ Fail(w, "TransportError")
       \/ /\ Continue(w, "latest",
                      [loc[w] EXCEPT !.responses =
                                        AssistantMessages(ListMessage(Thread(w).messages))],
                      Thread(w))
          /\ UNCHANGED heap
    /\ UNCHANGED <<sessions, assistantID, ops>>

\* An operation whose turn has completed and that is about to read the
\* responses of its thread, for every thread of MessageLists.
InitResponses ==
    \E op \in {"start", "cont", "sugg", "acc", "fin"}, ms \in MessageLists :
        LET th == [pending |-> << >>,
                   last |-> Latest(SelectSeq(ms, LAMBDA m : m.role = "assistant")),
                   messages |-> ms]
        IN
        /\ sessions = <<1>>
        /\ heap = <<[ThreadID |-> 1, SelectedRoles |-> <<"PM", "Dev">>,
                     RolePrompts |-> AppRolePrompts,
                     Questions |-> << >>, Suggestions |-> << >>, Phase |-> PhaseQuestioning]>>
        /\ sessionsMutex = [writer |-> IF op \in SubmitOps THEN 1 ELSE 0, readers |-> {}]
        /\ threads = <<IF op = "start" THEN [th EXCEPT !.last = << >>, !.messages = << >>]
                       ELSE th>>
        /\ assistantID = 1
        /\ pc = [w \in Workers |-> IF w = 1 THEN "resp" ELSE "idle"]
        /\ loc = [w \in Workers |->
                    IF w # 1 THEN IdleLoc
                    ELSE IF op = "start"
                    THEN [IdleLoc EXCEPT !.op = op, !.roles = <<"PM", "Dev">>,
                                         !.rolePrompts = AppRolePrompts,
                                         !.thread = th, !.run = "completed"]
                    ELSE [IdleLoc EXCEPT !.op = op, !.sid = 1, !.session = 1,
                                         !.run = "completed"]]
        /\ result = [w \in Workers |-> NoResult]
        /\ ops = 1

NextResponses == \E w \in Workers : GetAssistantResponse(w)

SpecResponses == InitResponses /\ [][NextResponses]_vars

\* ------------------------------------------------------ the poll loop alone
\* The run of worker w's call reaches the terminal status st at the
\* transport.
RunEnds(w) ==
    /\ pc[w] = "poll"
    /\ Thread(w).status = "in_progress"
    /\ \E st \in TerminalStatuses :
         Continue(w, "poll", loc[w], [Thread(w) EXCEPT !.status = st])
    /\ UNCHANGED <<sessions, heap, assistantID, ops>>

\* One iteration of the poll loop in which RetrieveRun reports the status
\* the run has at the transport.
RunAssistant_Retrieved(w) ==
    /\ pc[w] = "poll"
    /\ Retrieved(w, Thread(w).status)
    /\ UNCHANGED <<sessions, assistantID, ops>>

\* One iteration of the poll loop in which RetrieveRun fails.
RunAssistant_RetrieveFails(w) ==
    /\ pc[w] = "poll"
    /\ Fail(w, "TransportError")
    /\ UNCHANGED <<sessions, assistantID, ops>>

\* An operation that has created its run and enters the poll loop.
InitPoll ==
    \E op \in {"start", "cont", "sugg", "acc", "fin"}, t \in Texts \cup {<< >>} :
        LET th == [pending |-> << >>, last |-> t, status |-> "in_progress"] IN
        /\ sessions = <<1>>
        /\ heap = <<[ThreadID |-> 1, SelectedRoles |-> <<"PM", "Dev">>,
                     RolePrompts |-> AppRolePrompts,
                     Questions |-> << >>, Suggestions |-> << >>, Phase |-> PhaseQuestioning]>>
        /\ sessionsMutex = [writer |-> IF op \in SubmitOps THEN 1 ELSE 0, readers |-> {}]
        /\ threads = <<IF op = "start" THEN [th EXCEPT !.last = << >>, !.status = "none"]
                       ELSE th>>
        /\ assistantID = 1
        /\ pc = [w \in Workers |-> IF w = 1 THEN "poll" ELSE "idle"]
        /\ loc = [w \in Workers |->
                    IF w # 1 THEN IdleLoc
                    ELSE IF op = "start"
                    THEN [IdleLoc EXCEPT !.op = op, !.roles = <<"PM", "Dev">>,
                                         !.rolePrompts = AppRolePrompts,
                                         !.thread = th, !.run = "in_progress"]
                    ELSE [IdleLoc EXCEPT !.op = op, !.sid = 1, !.session = 1,
                                         !.run = "in_progress"]]
        /\ result = [w \in Workers |-> NoResult]
        /\ ops = 1

NextPoll ==
    \E w \in Workers :
        \/ RunEnds(w)
        \/ RunAssistant_Retrieved(w)
        \/ RunAssistant_RetrieveFails(w)

\* The goroutine of a call keeps running its loop: an iteration whose
\* retrieval succeeds is not put off forever.
SpecPoll ==
    InitPoll /\ [][NextPoll]_vars /\ \A w \in Workers : WF_vars(RunAssistant_Retrieved(w))

\* ------------------------------------------------------- one submit alone
\* The session a start stored from the reply TwoQuestions.
AskedSession ==
    [ThreadID |-> 1, SelectedRoles |-> <<"PM", "Dev">>, RolePrompts |-> AppRolePrompts,
     Questions |-> Unmarshal(TwoQuestions), Suggestions |-> << >>,
     Phase |-> PhaseQuestioning]

\* A continue or a get-suggestions is called on that session, no other call
\* being in progress; an earlier call may have left its instruction on the
\* thread without running it.
InitSubmit ==
    \E op \in SubmitOps, sid \in 1..MaxSid, pending \in {<< >>, <<"questioning">>} :
        /\ sessions = <<1>>
        /\ heap = <<AskedSession>>
        /\ sessionsMutex = [writer |-> 0, readers |-> {}]
        /\ threads = <<[pending |-> pending, last |-> TwoQuestions]>>
        /\ assistantID = 1
        /\ pc = [w \in Workers |-> IF w = 1 THEN "rlock" ELSE "idle"]
        /\ loc = [w \in Workers |->
                    IF w = 1
                    THEN [IdleLoc EXCEPT !.op = op, !.sid = sid, !.rolePrompts = AppRolePrompts]
                    ELSE IdleLoc]
        /\ result = [w \in Workers |-> NoResult]
        /\ ops = 1

NextSubmit ==
    \E w \in Workers :
        \/ Lookup_RLock(w)
        \/ Lookup(w)
        \/ Submit_Lock(w)
        \/ Submit_RecordAnswers(w)
        \/ Submit_AddUserResponse(w)
        \/ Submit_AddInstruction(w)
        \/ RunAssistant_CreateRun(w)
        \/ RunAssistant_Poll(w)
        \/ SubmitAnswersAndContinue_Commit(w)
        \/ SubmitAnswersAndGetSuggestions_Commit(w)

SpecSubmit == InitSubmit /\ [][NextSubmit]_vars

\* ------------------------------------------------ the assistant identity
\* Here assistantID holds the service's field, the client's field (0 = ""),
\* the number of assistants of the assistant name that exist at the
\* transport (their ids are 1..remote) and the number this process created;
\* a thread also carries the assistant of the run created on it last.

\* if c.assistantID != "" { return c.assistantID, nil }
GetOrCreateAssistant_Cached(w) ==
    /\ loc[w].op = "start"
    /\ pc[w] = "assistant"
    /\ IF assistantID.client # 0
       THEN Continue(w, "assign", [loc[w] EXCEPT !.assistant = assistantID.client], Thread(w))
       ELSE Continue(w, "list", loc[w], Thread(w))
    /\ UNCHANGED <<sessions, heap, assistantID, ops>>

\* ListAssistants, then the search of the listing for the assistant name.
GetOrCreateAssistant_List(w) ==
    /\ loc[w].op = "start"
    /\ pc[w] = "list"
    /\ \/ /\ Fail(w, "TransportError")
          /\ UNCHANGED assistantID
       \/ /\ assistantID.remote = 0
          /\ Continue(w, "create", loc[w], Thread(w))
          /\ UNCHANGED <<heap, assistantID>>
       \/ \E a \in 1..assistantID.remote :
            /\ Continue(w, "assign", [loc[w] EXCEPT !.assistant = a], Thread(w))
            /\ assistantID' = [assistantID EXCEPT !.client = a]
            /\ UNCHANGED heap
    /\ UNCHANGED <<sessions, ops>>

\* CreateAssistant; c.assistantID = newAssistant.ID
GetOrCreateAssistant_Create(w) ==
    /\ loc[w].op = "start"
    /\ pc[w] = "create"
    /\ \/ /\ Fail(w, "TransportError")
          /\ UNCHANGED assistantID
       \/ LET a == assistantID.remote + 1 IN
          /\ Continue(w, "assign", [loc[w] EXCEPT !.assistant = a], Thread(w))
          /\ assistantID' = [assistantID EXCEPT !.client = a, !.remote = a,
                                                !.created = @ + 1]
          /\ UNCHANGED heap
    /\ UNCHANGED <<sessions, ops>>

\* s.assistantID = assistantID
StartSession_KeepAssistantID(w) ==
    /\ loc[w].op = "start"
    /\ pc[w] = "assign"
    /\ Continue(w, "thread", loc[w], Thread(w))
    /\ assistantID' = [assistantID EXCEPT !.service = loc[w].assistant]
    /\ UNCHANGED <<sessions, heap, ops>>

\* CreateRun with its AssistantID: the id the start obtained in a start,
\* s.assistantID in every other operation.
RunAssistant_CreateRunAs(w) ==
    /\ pc[w] = "run"
    /\ \/ Fail(w, "TransportError")
       \/ /\ Continue(w, "poll", [loc[w] EXCEPT !.run = "in_progress"],
                      [pending |-> << >>, last |-> Thread(w).last,
                       assistant |-> IF loc[w].op = "start" THEN loc[w].assistant
                                     ELSE assistantID.service])
          /\ UNCHANGED heap
    /\ UNCHANGED <<sessions, assistantID, ops>>

\* A fresh process; an assistant of the name may exist at the transport.
InitAssistant ==
    /\ sessions = << >>
    /\ heap = << >>
    /\ sessionsMutex = [writer |-> 0, readers |-> {}]
    /\ threads = << >>
    /\ \E n \in {0, 1} : assistantID = [service |-> 0, client |-> 0, remote |-> n, created |-> 0]
    /\ pc = [w \in Workers |-> "idle"]
    /\ loc = [w \in Workers |-> IdleLoc]
    /\ result = [w \in Workers |-> NoResult]
    /\ ops = 0

NextAssistant ==
    \E w \in Workers :
        \/ StartRefinementHandler(w)
        \/ GetOrCreateAssistant_Cached(w)
        \/ GetOrCreateAssistant_List(w)
        \/ GetOrCreateAssistant_Create(w)
        \/ StartSession_KeepAssistantID(w)
        \/ StartSession_CreateThread(w)
        \/ StartSession_AddMessage(w)
        \/ StartSession_Parse(w)
        \/ StartSession_NewSession(w)
        \/ StartSession_Lock(w)
        \/ StartSession_Store(w)
        \/ RunAssistant_CreateRunAs(w)
        \/ RunAssistant_Poll(w)
        \/ SubmitAnswersAndContinueHandler(w)
        \/ Lookup_RLock(w)
        \/ Lookup(w)
        \/ Submit_Lock(w)
        \/ Submit_RecordAnswers(w)
        \/ Submit_AddUserResponse(w)
        \/ Submit_AddInstruction(w)
        \/ SubmitAnswersAndContinue_Commit(w)

SpecAssistant == InitAssistant /\ [][NextAssistant]_vars

\* ------------------------------------------------------- one accept alone
\* next_phase values of any kind: the two targets, the empty string, a
\* target in another case and a value that names no phase.
AcceptTargets == NextPhases \cup {"SUGGESTING", "finalizing"}

\* An accept is called on the one stored session, which is SUGGESTING with
\* two suggestions or QUESTIONING with two questions, with any target.
InitAccept ==
    \E acc \in AcceptedLists, np \in AcceptTargets, ph \in {PhaseQuestioning, PhaseSuggesting} :
        /\ sessions = <<1>>
        /\ heap = <<[ThreadID |-> 1, SelectedRoles |-> <<"PM", "Dev">>,
                     RolePrompts |-> AppRolePrompts,
                     Questions |-> IF ph = PhaseQuestioning
                                   THEN Unmarshal(TwoQuestions) ELSE << >>,
                     Suggestions |-> IF ph = PhaseSuggesting
                                     THEN AsSuggestions(Unmarshal(TwoQuestions)) ELSE << >>,
                     Phase |-> ph]>>
        /\ sessionsMutex = [writer |-> 0, readers |-> {}]
        /\ threads = <<[pending |-> << >>, last |-> TwoQuestions]>>
        /\ assistantID = 1
        /\ pc = [w \in Workers |-> IF w = 1 THEN "rlock" ELSE "idle"]
        /\ loc = [w \in Workers |->
                    IF w = 1
                    THEN [IdleLoc EXCEPT !.op = "acc", !.sid = 1, !.accepted = acc,
                                         !.nextPhase = np]
                    ELSE IdleLoc]
        /\ result = [w \in Workers |-> NoResult]
        /\ ops = 1

NextAccept ==
    \E w \in Workers :
        \/ Lookup_RLock(w)
        \/ Lookup(w)
        \/ AcceptSuggestions_AddAccepted(w)
        \/ AcceptSuggestions_AddInstruction(w)
        \/ RunAssistant_CreateRun(w)
        \/ RunAssistant_Poll(w)
        \/ AcceptSuggestions_Parse(w)
        \/ AcceptSuggestions_Lock(w)
        \/ AcceptSuggestions_Commit(w)

SpecAccept == InitAccept /\ [][NextAccept]_vars

\* ------------------------------------------------ the context of a finalize
\* The lines of acceptedText for one suggestion key: one for each prompt of
\* each stored suggestion whose role and prompt make up the key.
RECURSIVE LinesFor(_, _)
LinesFor(suggestions, key) ==
    IF suggestions = << >> THEN << >>
    ELSE LET s == Head(suggestions) IN
         SelectSeq([j \in 1..Len(s.prompt) |-> <<s.role, s.prompt[j]>>], LAMBDA l : l = key)
         \o LinesFor(Tail(suggestions), key)

\* for _, suggestionKey := range currentSuggestions { ... }
RECURSIVE AcceptedLines(_, _)
AcceptedLines(suggestions, keys) ==
    IF keys = << >> THEN << >>
    ELSE LinesFor(suggestions, Head(keys)) \o AcceptedLines(suggestions, Tail(keys))

\* 1. The context step of Finalize on the arguments of its call: which
\* message is built, and for the accepted text the lines it lists.  The
\* reads of the stored lists are unlocked.
Finalize_ContextOf(w) ==
    /\ loc[w].op = "fin"
    /\ pc[w] = "ctx"
    /\ LET s == heap[loc[w].session]
           keys == {loc[w].keys[i] : i \in DOMAIN loc[w].keys}
           lines == AcceptedLines(s.Suggestions, loc[w].keys)
       IN  \E c \in IF RacyRead(w) /\ loc[w].currentPhase = "QUESTIONING" /\ loc[w].answers # {}
                    THEN {"answers", "none"}
                    ELSE {FinalizeContext(s, loc[w].currentPhase, loc[w].answers, keys)} :
             \E l \in IF RacyRead(w) THEN {lines, << >>} ELSE {lines} :
                Continue(w, IF c = "none" THEN "note" ELSE "msg1",
                         [loc[w] EXCEPT !.ctx = c,
                                        !.listed = IF c = "accepted" THEN l ELSE << >>],
                         Thread(w))
    /\ UNCHANGED <<sessions, heap, assistantID, ops>>

\* A finalize has found the one stored session, which is QUESTIONING with
\* two questions or SUGGESTING with two suggestions, and is about to build
\* its context from any supplied phase, answers, keys and note; another
\* call is idle, or is a continue on the same session inside its locked
\* region.
InitFinalize ==
    \E cp \in CurrentPhases \cup {"", "FINALIZING"},
       answers \in AnswerMaps \cup {{<<"QA", "Q1">>}},
       keys \in {<< >>, <<<<"PM", "Q1">>>>, <<<<"QA", "Q1">>>>,
                 <<<<"Dev", "Q1">>, <<"PM", "Q1">>>>},
       note \in {<< >>, <<"fix">>},
       ph \in {PhaseQuestioning, PhaseSuggesting},
       other \in {"none", "cont"} :
        /\ sessions = <<1>>
        /\ heap = <<[ThreadID |-> 1, SelectedRoles |-> <<"PM", "Dev">>,
                     RolePrompts |-> AppRolePrompts,
                     Questions |-> IF ph = PhaseQuestioning
                                   THEN Unmarshal(TwoQuestions) ELSE << >>,
                     Suggestions |-> IF ph = PhaseSuggesting
                                     THEN AsSuggestions(Unmarshal(TwoQuestions)) ELSE << >>,
                     Phase |-> ph]>>
        /\ sessionsMutex = [writer |-> IF other = "cont" /\ 2 \in Workers THEN 2 ELSE 0,
                            readers |-> {}]
        /\ threads = <<[pending |-> << >>, last |-> TwoQuestions]>>
        /\ assistantID = 1
        /\ pc = [w \in Workers |->
                   IF w = 1 THEN "ctx" ELSE IF w = 2 /\ other = "cont" THEN "msg2" ELSE "idle"]
        /\ loc = [w \in Workers |->
                    IF w = 1
                    THEN [IdleLoc EXCEPT !.op = "fin", !.sid = 1, !.session = 1,
                                         !.currentPhase = cp, !.answers = answers,
                                         !.keys = keys, !.note = note]
                    ELSE IF w = 2 /\ other = "cont"
                    THEN [IdleLoc EXCEPT !.op = "cont", !.sid = 1, !.session = 1,
                                         !.rolePrompts = AppRolePrompts]
                    ELSE IdleLoc]
        /\ result = [w \in Workers |-> NoResult]
        /\ ops = IF other = "cont" THEN 2 ELSE 1

NextFinalize ==
    \E w \in Workers :
        \/ Finalize_ContextOf(w)
        \/ Finalize_AddContext(w)
        \/ Finalize_AddModification(w)
        \/ Finalize_AddPrompt(w)
        \/ Finalize_Result(w)
        \/ Submit_AddInstruction(w)
        \/ RunAssistant_CreateRun(w)
        \/ RunAssistant_Poll(w)
        \/ SubmitAnswersAndContinue_Commit(w)

SpecFinalize == InitFinalize /\ [][NextFinalize]_vars

\* ================================================================ claims
\* The stored session of id.
Stored(id) == heap[sessions[id]]

\* Statements at which a worker is inside (about to return from) a call of
\* the assistant transport.
TransportPcs == {"assistant", "thread", "msg1", "msg2", "run", "poll", "resp"}

HoldsLock(w, m) == m.writer = w \/ w \in m.readers

\* Worker w takes a step.
Steps(w) == pc'[w] # pc[w] \/ loc'[w] # loc[w]

\* Worker w returns "ok" from operation op in this step.
Succeeds(w, op) ==
    /\ loc[w].op = op
    /\ pc[w] # "idle"
    /\ pc'[w] = "idle"
    /\ result'[w].status = "ok"

\* C1: for every stored session, questions and suggestions are never both
\* non-empty, whatever operations were called in whatever phase.
NeverBothPopulated ==
    \A id \in DOMAIN sessions :
        ~(Stored(id).Questions # << >> /\ Stored(id).Suggestions # << >>)

\* C2: a worker that is inside a transport call holds no store lock, read
\* or write.
NoLockDuringTransport ==
    \A w \in Workers : pc[w] \in TransportPcs => ~HoldsLock(w, sessionsMutex)

\* C3: while the turn of a worker is pending, no operation on another
\* session and no start is kept waiting for the store lock by that worker.
UnrelatedNotBlockedByTurn ==
    \A a, b \in Workers :
        ( /\ a # b
          /\ pc[a] = "poll"
          /\ pc[b] \in {"rlock", "lock"}
          /\ loc[b].op = "start" \/ loc[b].sid # loc[a].sid )
        => sessionsMutex.writer # a

\* C4: the stored phase changes only along the enumerated transitions: a
\* continue commits only on a QUESTIONING session and leaves it QUESTIONING,
\* a get-suggestions commits only QUESTIONING to SUGGESTING, an accept
\* commits only on a SUGGESTING session, and nothing else changes a phase.
PhaseOnlyAlongTransitions ==
    [][ /\ \A w \in Workers :
             /\ Succeeds(w, "cont") =>
                    /\ heap[loc[w].session].Phase = PhaseQuestioning
                    /\ heap'[loc[w].session].Phase = PhaseQuestioning
             /\ Succeeds(w, "sugg") =>
                    /\ heap[loc[w].session].Phase = PhaseQuestioning
                    /\ heap'[loc[w].session].Phase = PhaseSuggesting
             /\ Succeeds(w, "acc") => heap[loc[w].session].Phase = PhaseSuggesting
        /\ \A r \in DOMAIN heap :
             heap'[r].Phase # heap[r].Phase =>
                 \E w \in Workers :
                     /\ loc[w].session = r
                     /\ Succeeds(w, "sugg") \/ Succeeds(w, "acc")
      ]_vars

\* Statements of a start that has created its thread.
StartPastEntry == {"msg2", "run", "poll", "resp", "new", "lock", "store"}

\* C5: a start with an empty selected-roles list fails before it creates a
\* thread, and never stores a session.
StartEmptyRolesRejected ==
    /\ \A w \in Workers :
         (loc[w].op = "start" /\ loc[w].roles = << >>) => pc[w] \notin StartPastEntry
    /\ \A r \in DOMAIN heap : heap[r].SelectedRoles # << >>

\* C6: an operation whose session id is not in the store makes no change to
\* the sessions or to the transport before the lookup, and at the lookup it
\* returns not-found, releasing its read lock and changing nothing else.
NotFoundChangesNothing ==
    [][ \A w \in Workers :
          /\ (pc[w] \in {"rlock", "lookup"} /\ Steps(w)) =>
                 UNCHANGED <<sessions, heap, threads, assistantID>>
          /\ (pc[w] = "lookup" /\ loc[w].sid \notin DOMAIN sessions /\ Steps(w)) =>
                 /\ pc'[w] = "idle"
                 /\ result'[w] = Error(loc[w].op, "NotFound")
                 /\ sessionsMutex' = [sessionsMutex EXCEPT !.readers = @ \ {w}]
                 /\ ~HoldsLock(w, sessionsMutex')
      ]_vars

\* C6 witness: a call has returned not-found although the store holds a
\* session.
NotFoundReturned ==
    \E w \in Workers :
        /\ result[w].status = "NotFound"
        /\ result[w].op \in KeyedOps
        /\ Len(sessions) > 0

\* C7: a successful accept with target "questioning" leaves phase
\* QUESTIONING and no suggestions; with target "suggesting" it leaves phase
\* SUGGESTING and no questions; the accepted list plays no part.
AcceptYieldsTarget ==
    [][ \A w \in Workers :
          Succeeds(w, "acc") =>
              LET s == heap'[loc[w].session] IN
              /\ loc[w].nextPhase = "questioning" =>
                     (s.Phase = PhaseQuestioning /\ s.Suggestions = << >>)
              /\ loc[w].nextPhase = "suggesting" =>
                     (s.Phase = PhaseSuggesting /\ s.Questions = << >>)
      ]_vars

\* C7 witness: an accept with an empty accepted list has succeeded and its
\* session is SUGGESTING with suggestions and without questions.
AcceptedNothing ==
    \E w \in Workers :
        /\ result[w].op = "acc"
        /\ result[w].status = "ok"
        /\ result[w].accepted = << >>
        /\ heap[result[w].session].Phase = PhaseSuggesting
        /\ heap[result[w].session].Suggestions # << >>
        /\ heap[result[w].session].Questions = << >>

\* C8: no step of a finalize, successful or not, changes a stored session,
\* the session map or the assistant id; it changes at most its own
\* session's thread.
FinalizeLeavesSession ==
    [][ \A w \in Workers :
          (loc[w].op = "fin" /\ Steps(w)) =>
              /\ UNCHANGED <<sessions, heap, assistantID>>
              /\ \A t \in DOMAIN threads :
                     (loc[w].session = 0 \/ t # heap[loc[w].session].ThreadID)
                     => threads'[t] = threads[t]
      ]_vars

\* C8 witness: a finalize has returned its result for a session whose
\* questions carry a recorded answer.
FinalizeReturned ==
    \E w \in Workers :
        /\ result[w].op = "fin"
        /\ result[w].status = "ok"
        /\ \E r \in DOMAIN heap : \E i \in DOMAIN heap[r].Questions :
               heap[r].Questions[i].answer # ""

\* C9: the thread handle stored under a session id never changes.
ThreadHandleStable ==
    [][ \A id \in DOMAIN sessions :
          heap'[sessions'[id]].ThreadID = heap[sessions[id]].ThreadID ]_vars

\* C10: a QUESTIONING session has no suggestions and a SUGGESTING session
\* has no questions.
PopulatedListMatchesPhase ==
    \A id \in DOMAIN sessions :
        /\ Stored(id).Phase = PhaseQuestioning => Stored(id).Suggestions = << >>
        /\ Stored(id).Phase = PhaseSuggesting => Stored(id).Questions = << >>

\* The thread of worker w's call after the step.
ThreadAfter(w) ==
    IF loc[w].op = "start" THEN loc'[w].thread ELSE threads'[heap[loc[w].session].ThreadID]

\* Worker w's call returns the error e in this step.
FailsWith(w, e) == pc'[w] = "idle" /\ result'[w].status = e

\* Worker w appends message m to its thread and goes on to statement p.
Appends(w, m, p) ==
    /\ pc'[w] = p
    /\ ThreadAfter(w).pending = Append(Thread(w).pending, m)

\* The operations that parse their reply in structured mode.
StructuredOps == {"start", "cont", "sugg", "acc"}

\* C11: every successful submitAnswersAndContinue leaves the session in
\* phase QUESTIONING with exactly the questions parsed from the reply.
ContinueYieldsQuestions ==
    [][ \A w \in Workers :
          Succeeds(w, "cont") =>
              /\ heap'[loc[w].session].Phase = PhaseQuestioning
              /\ heap'[loc[w].session].Questions = Parsed(LatestText(w))
      ]_vars

\* C12: every successful submitAnswersAndGetSuggestions leaves the session
\* in phase SUGGESTING, with the suggestions parsed from the reply and no
\* questions.
SuggestionsCommitted ==
    [][ \A w \in Workers :
          Succeeds(w, "sugg") =>
              LET s == heap'[loc[w].session] IN
              /\ s.Phase = PhaseSuggesting
              /\ s.Suggestions = AsSuggestions(Parsed(LatestText(w)))
              /\ s.Questions = << >>
      ]_vars

\* C12 witness: a get-suggestions has returned and its session is
\* SUGGESTING with two suggestions and no questions.
SuggestionsReturned ==
    \E w \in Workers :
        /\ result[w].op = "sugg"
        /\ result[w].status = "ok"
        /\ heap[result[w].session].Phase = PhaseSuggesting
        /\ Len(heap[result[w].session].Suggestions) = 2
        /\ heap[result[w].session].Questions = << >>

\* C13: an accept goes through the same statements whether or not its
\* accepted list is empty: it appends the accepted text, which for an empty
\* list is the message saying that nothing was accepted, then a non-empty
\* instruction, then creates the run; the only failure of these statements
\* is a transport error.
AcceptNothingProceeds ==
    [][ \A w \in Workers :
          (loc[w].op = "acc" /\ Steps(w)) =>
              /\ pc[w] = "msg1" =>
                    \/ FailsWith(w, "TransportError")
                    \/ Appends(w, IF loc[w].accepted = << >>
                                  THEN "accepted:none" ELSE "accepted", "msg2")
              /\ pc[w] = "msg2" =>
                    \/ FailsWith(w, "TransportError")
                    \/ \E m \in {"questioning", "suggesting"} : Appends(w, m, "run")
              /\ pc[w] = "run" =>
                    \/ FailsWith(w, "TransportError")
                    \/ pc'[w] = "poll" /\ loc'[w].run = "in_progress"
      ]_vars

\* C13 witness: an accept with an empty accepted list is about to run its
\* turn on a thread that has received the nothing-accepted message and the
\* instruction.
AcceptNothingRuns ==
    \E w \in Workers :
        /\ loc[w].op = "acc"
        /\ loc[w].accepted = << >>
        /\ pc[w] = "run"
        /\ Thread(w).pending = <<"accepted:none", AcceptPhaseKey(loc[w].nextPhase)>>

\* C14: when the reply cannot be deserialized, the operation returns an
\* error that carries the raw reply text and commits nothing.
ParseErrorCarriesRaw ==
    [][ \A w \in Workers :
          ( /\ loc[w].op \in StructuredOps
            /\ pc[w] = "resp"
            /\ Steps(w)
            /\ LatestText(w) # << >>
            /\ ~UnmarshalOk(StripFence(LatestText(w))) )
          => /\ FailsWith(w, "ParseError") \/ FailsWith(w, "TransportError")
             /\ FailsWith(w, "ParseError") => result'[w].detail = LatestText(w)
             /\ UNCHANGED <<sessions, heap>>
      ]_vars

\* C15: every successful start stores a new session in phase QUESTIONING
\* whose questions are the records parsed from the reply and whose
\* suggestions are empty, and returns that session.
StartStoresQuestioning ==
    [][ \A w \in Workers :
          /\ (loc[w].op = "start" /\ pc[w] = "resp" /\ pc'[w] = "new") =>
                 loc'[w].parsed = Parsed(LatestText(w))
          /\ Succeeds(w, "start") =>
                 LET r == result'[w].session IN
                 /\ r \notin DOMAIN heap
                 /\ r \in DOMAIN heap'
                 /\ \E id \in DOMAIN sessions' : sessions'[id] = r
                 /\ heap'[r].Phase = PhaseQuestioning
                 /\ heap'[r].Questions = loc[w].parsed
                 /\ heap'[r].Suggestions = << >>
      ]_vars

\* C15 witness: a start has returned a QUESTIONING session with the two
\* questions of the reply.
StartReturnedTwoQuestions ==
    \E w \in Workers :
        /\ result[w].op = "start"
        /\ result[w].status = "ok"
        /\ heap[result[w].session].Phase = PhaseQuestioning
        /\ Len(heap[result[w].session].Questions) = 2
        /\ heap[result[w].session].Suggestions = << >>

\* C16: the run step goes on to read responses only when the run's status
\* is completed; a failed, cancelled or expired run makes the operation
\* return a run-failed error that names the status, and that return changes
\* no session, map entry or thread; a run-failed error comes from nowhere
\* else.
RunFailedEndsOperation ==
    [][ \A w \in Workers :
          /\ (pc[w] = "poll" /\ pc'[w] = "resp") => loc'[w].run = "completed"
          /\ (Steps(w) /\ FailsWith(w, "RunFailed")) =>
                 /\ pc[w] = "poll"
                 /\ result'[w].detail \in {<<"failed">>, <<"cancelled">>, <<"expired">>}
                 /\ UNCHANGED <<sessions, heap, threads>>
      ]_vars

\* C16 witness: an operation on a stored session has returned the
\* run-failed error of an expired run.
RunExpired ==
    \E w \in Workers :
        /\ result[w].status = "RunFailed"
        /\ result[w].op \in KeyedOps
        /\ result[w].detail = <<"expired">>

\* The position of statement p in the text of operation op.
Rank(op, p) ==
    CASE p \in {"rlock", "assistant"} -> 1
      [] p \in {"lookup", "thread"} -> 2
      [] p = "lock" /\ op \in SubmitOps -> 3
      [] p = "ctx" -> 3
      [] p = "answers" -> 4
      [] p = "msg1" -> 5
      [] p = "note" -> 6
      [] p = "msg2" -> 7
      [] p = "run" -> 8
      [] p = "poll" -> 9
      [] p = "resp" -> 10
      [] p = "new" -> 11
      [] p = "lock" -> 12
      [] p \in {"store", "commit"} -> 13
      [] OTHER -> 0

\* C17: a call never goes back to a statement: each step either ends the
\* call, or waits in the poll loop of its one run, or moves to a later
\* statement; and a step that meets an error ends the call at once.
NoRetry ==
    [][ \A w \in Workers :
          (pc[w] # "idle" /\ Steps(w)) =>
              /\ \/ pc'[w] = "idle"
                 \/ Rank(loc[w].op, pc'[w]) > Rank(loc[w].op, pc[w])
              /\ result'[w] # result[w] => pc'[w] = "idle"
      ]_vars

\* C17 witness: a continue has failed with a transport error after a
\* message reached its thread, and the message is still waiting for a run.
FailedAfterMessage ==
    \E w \in Workers :
        /\ result[w].op = "cont"
        /\ result[w].status = "TransportError"
        /\ \E t \in DOMAIN threads : threads[t].pending # << >>

\* C18: in every finalize the note statement appends the modification note
\* when it has a non-blank character and leaves the thread alone when it
\* has none; the prompt is appended only after the note statement and the
\* run is created only after the prompt.
NoteBeforePrompt ==
    [][ \A w \in Workers :
          (loc[w].op = "fin" /\ Steps(w)) =>
              /\ pc[w] = "note" =>
                    IF \A i \in 1..Len(loc[w].note) : loc[w].note[i] \in {" ", "\n"}
                    THEN pc'[w] = "msg2" /\ UNCHANGED threads
                    ELSE \/ FailsWith(w, "TransportError") /\ UNCHANGED threads
                         \/ Appends(w, "note", "msg2")
              /\ pc[w] = "msg2" =>
                    \/ FailsWith(w, "TransportError") /\ UNCHANGED threads
                    \/ Appends(w, "finalize", "run")
              /\ pc'[w] = "msg2" => pc[w] = "note"
              /\ pc'[w] = "run" => pc[w] = "msg2"
      ]_vars

\* C18 witness: one finalize has returned its result and another finalize
\* is about to run its turn on a thread that received its note and then
\* its prompt.
RepeatedFinalizeWithNote ==
    \E v, w \in Workers :
        /\ result[v].op = "fin"
        /\ result[v].status = "ok"
        /\ loc[w].op = "fin"
        /\ pc[w] = "run"
        /\ Thread(w).pending = <<"note", "finalize">>

\* The criteria the section parse is specified to give for these lines:
\* each line that starts with an ordinal prefix, without that prefix.
RECURSIVE SpecifiedCriteria(_)
SpecifiedCriteria(lines) ==
    IF lines = << >> THEN << >>
    ELSE LET line == TrimSpace(Head(lines)) IN
         (IF line # << >> /\ Head(line) \in {"1.", "2.", "3.", "4.", "5."}
          THEN <<TrimSpace(Tail(line))>> ELSE << >>) \o SpecifiedCriteria(Tail(lines))

\* The pieces of t before / after position i.
Before(t, i) == SubSeq(t, 1, i - 1)

After(t, i) == SubSeq(t, i + 1, Len(t))

\* C19: a finalize whose reply has both markers returns the trimmed text
\* between them as the story and the ordinal lines after the criteria
\* marker, prefix stripped, as the criteria; a reply without one of the
\* markers is returned whole as the story with no criteria.
SectionParseAsSpecified ==
    [][ \A w \in Workers :
          ( /\ loc[w].op = "fin"
            /\ pc[w] = "resp"
            /\ Steps(w)
            /\ LatestText(w) # << >>
            /\ ~FailsWith(w, "TransportError") )
          => LET raw == LatestText(w)
                 s == Index(raw, StoryMarker)
                 c == Index(raw, CriteriaMarker)
             IN  /\ result'[w].status = "ok"
                 /\ (s # 0 /\ c # 0 /\ s < c) =>
                        /\ result'[w].story = TrimSpace(Before(After(raw, s), c - s))
                        /\ result'[w].criteria = SpecifiedCriteria(Split(After(raw, c)))
                 /\ (s = 0 \/ c = 0) =>
                        /\ result'[w].story = raw
                        /\ result'[w].criteria = << >>
      ]_vars

\* C20: a finalize that reads a non-empty reply returns a story and a
\* criteria list, wherever the markers stand in the reply.
SectionParseNeverFails ==
    [][ \A w \in Workers :
          ( /\ loc[w].op = "fin"
            /\ pc[w] = "resp"
            /\ Steps(w)
            /\ LatestText(w) # << >> )
          => \/ FailsWith(w, "TransportError")
             \/ pc'[w] = "idle" /\ result'[w].status = "ok"
      ]_vars

\* C21: a start or a continue that reads the fenced serialisation of a list
\* of records, written with or without a line break between the fence
\* markers and the payload, parses exactly that list.
FenceRoundTrip ==
    [][ \A w \in Workers :
          ( /\ loc[w].op \in {"start", "cont"}
            /\ pc[w] = "resp"
            /\ Steps(w)
            /\ ~FailsWith(w, "TransportError") )
          => \A l \in RecordLists, nlOpen \in BOOLEAN, nlClose \in BOOLEAN :
                 LatestText(w) = Fenced(Marshal(l), nlOpen, nlClose) =>
                     IF loc[w].op = "start"
                     THEN pc'[w] = "new" /\ loc'[w].parsed = l
                     ELSE Succeeds(w, "cont") /\ heap'[loc[w].session].Questions = l
      ]_vars

\* C22: every successful start, continue, get-suggestions, accept and
\* finalize hands its caller the raw reply it parsed: the returned raw text
\* is the latest reply of the call's thread (for an accept, whose reply was
\* read at an earlier statement, a reply that parsed to records is returned
\* as a non-empty raw text).
RawReturned ==
    [][ \A w \in Workers :
          /\ (\E op \in {"start", "cont", "sugg", "fin"} : Succeeds(w, op)) =>
                 result'[w].detail = LatestText(w)
          /\ (Succeeds(w, "acc") /\ loc[w].parsed # << >>) =>
                 result'[w].detail # << >>
      ]_vars

\* C23: two submits on the same session are not serialized beyond the
\* store's own critical sections: while one of them is inside a transport
\* call on the session's thread, it does not hold the store lock that the
\* other one is waiting for, so the other can go on to its own transport
\* steps and the two can overlap.
SubmitsNotSerialized ==
    \A a, b \in Workers :
        ( /\ a # b
          /\ loc[a].op \in SubmitOps
          /\ loc[b].op \in SubmitOps
          /\ pc[a] \in TransportPcs
          /\ pc[b] = "lock"
          /\ loc[a].session = loc[b].session )
        => sessionsMutex.writer # a

\* C24: no step removes a session id from the store, and a lookup of a
\* stored id finds the session stored under it.
SessionsNeverRemoved ==
    [][ /\ DOMAIN sessions \subseteq DOMAIN sessions'
        /\ \A w \in Workers :
              (pc[w] = "lookup" /\ Steps(w) /\ loc[w].sid \in DOMAIN sessions) =>
                  /\ pc'[w] # "idle"
                  /\ loc'[w].session = sessions[loc[w].sid]
      ]_vars

\* C24 witness: two sessions are stored, a start has returned since, and a
\* call has found the session of the second id.
SecondSessionFound ==
    /\ Len(sessions) = 2
    /\ \E v, w \in Workers :
          /\ result[v].op = "start"
          /\ result[v].status = "ok"
          /\ loc[w].op \in KeyedOps
          /\ loc[w].sid = 2
          /\ loc[w].session = sessions[2]

\* The message worker w's step adds to its thread.
Added(w) == ThreadAfter(w).pending[Len(ThreadAfter(w).pending)]

\* C25: the instruction an operation builds has one role line for each
\* selected role that has a role prompt, in the order of the selected-roles
\* list, and none for a selected role without a prompt; a missing prompt is
\* no error, the only failure of the step being a transport error.
RoleLinesInOrder ==
    [][ \A w \in Workers :
          ( /\ loc[w].op \in {"start", "cont", "sugg", "acc"}
            /\ pc[w] = "msg2"
            /\ Steps(w) )
          => \/ FailsWith(w, "TransportError")
             \/ /\ pc'[w] = "run"
                /\ Len(ThreadAfter(w).pending) = Len(Thread(w).pending) + 1
                /\ LET m == Added(w)
                       part == SubSeq(m, Index(m, Lead) + 1, Index(m, ExampleHeader) - 1)
                   IN  SelectSeq(part, LAMBDA c : c \in Roles)
                       = SelectSeq(SelectedOf(w), LAMBDA r : r \in DOMAIN RolePromptsOf(w))
      ]_vars

\* C25 witness: a continue on a session that selected QA, Dev and PM, with
\* prompts for QA and PM only, has added its instruction, whose role lines
\* are those of QA and PM in that order (the examples of the three roles
\* follow in configuration order).
UnknownRoleSkipped ==
    \E w \in Workers :
        /\ loc[w].op = "cont"
        /\ pc[w] = "run"
        /\ heap[loc[w].session].SelectedRoles = <<"QA", "Dev", "PM">>
        /\ DOMAIN loc[w].rolePrompts = {"QA", "PM"}
        /\ Len(Thread(w).pending) = 1
        /\ SelectSeq(Thread(w).pending[1], LAMBDA c : c \in {"-", "QA", "Dev", "PM"})
               = <<"-", "QA", "-", "PM", "PM", "Dev", "QA">>

\* C26: the instruction a continue, a get-suggestions or an accept adds to
\* the thread starts with the supplementary-information block, holding the
\* supplied text, exactly when that text has a non-blank character;
\* otherwise it has no such block and starts with the role list part.
InfoBlockFirst ==
    [][ \A w \in Workers :
          ( /\ loc[w].op \in {"cont", "sugg", "acc"}
            /\ pc[w] = "msg2"
            /\ pc'[w] = "run" )
          => LET m == Added(w)
                 info == loc[w].info
             IN  IF \E i \in 1..Len(info) : info[i] \notin {" ", "\n"}
                 THEN /\ HasPrefix(m, <<InfoHeader, "\n">> \o info)
                      /\ Index(m, Lead) > Len(info) + 2
                 ELSE /\ Head(m) = Lead
                      /\ Index(m, InfoHeader) = 0
      ]_vars

\* C26 witness: an accept whose supplementary information has blanks
\* around its text has added an instruction that starts with the block.
InfoBlockAdded ==
    \E w \in Workers :
        /\ loc[w].op = "acc"
        /\ pc[w] = "run"
        /\ Len(Thread(w).pending) = 1
        /\ HasPrefix(Thread(w).pending[1], <<InfoHeader, "\n", "\n", "more", " ">>)

PollLoopTerminates ==
    /\ [][ \A w \in Workers :
              (pc[w] = "poll" /\ pc'[w] # "poll") =>
                  \/ FailsWith(w, "TransportError")
                  \/ /\ Thread(w).status \in {"completed", "failed", "cancelled", "expired"}
                     /\ IF Thread(w).status = "completed"
                        THEN pc'[w] = "resp"
                        ELSE FailsWith(w, "RunFailed")
          ]_vars
    /\ \A w \in Workers :
          (pc[w] = "poll" /\ Thread(w).status \in {"completed", "failed", "cancelled", "expired"})
              ~> (pc[w] # "poll")

\* C28 witness: a call has returned the run-failed error of a run that
\* expired while the call was polling.
ExpiredWhilePolling ==
    \E w \in Workers :
        /\ result[w].status = "RunFailed"
        /\ result[w].op = "acc"
        /\ threads[1].status = "expired"

\* C29: a continue or a get-suggestions that fails after its session was
\* found leaves the stored session, the answers of its questions included,
\* as it was before the call.
SubmitFailureCommitsNothing ==
    [][ \A w \in Workers :
          ( /\ loc[w].op \in SubmitOps
            /\ pc[w] \notin {"idle", "rlock", "lookup"}
            /\ pc'[w] = "idle"
            /\ result'[w].status # "ok" )
          => heap'[loc[w].session] = AskedSession
      ]_vars

\* C30: a start adds its session to the store only in the step in which it
\* returns it: every other step of a start, and so every step in which it
\* fails, leaves the session map and the stored sessions as they are.
StartFailureStoresNothing ==
    [][ \A w \in Workers :
          (loc[w].op = "start" /\ Steps(w) /\ ~Succeeds(w, "start")) =>
              UNCHANGED <<sessions, heap>>
      ]_vars

\* C30 witness: a start has returned a parse error while the store holds
\* the one session of an earlier start.
StartFailedAtParse ==
    \E w \in Workers :
        /\ result[w].op = "start"
        /\ result[w].status = "ParseError"
        /\ Len(sessions) = 1
        /\ Len(heap) = 1

\* C31: every successful start returns a session stored under an id that
\* the store did not hold before, grows the store by exactly one entry and
\* leaves every entry it held as it was, also when starts run concurrently.
StartStoresFreshId ==
    [][ \A w \in Workers :
          Succeeds(w, "start") =>
              /\ \E id \in DOMAIN sessions' \ DOMAIN sessions :
                     sessions'[id] = result'[w].session
              /\ Len(sessions') = Len(sessions) + 1
              /\ \A id \in DOMAIN sessions : sessions'[id] = sessions[id]
      ]_vars

\* C32: every statement that reads or writes the session map or a stored
\* session's questions, suggestions or phase runs under the store lock: the
\* lookup under the read lock, the store of a start, the recording of
\* answers and the commits under the write lock, and so do the read of the
\* map's length by a start and the reads of the questions and suggestions by
\* a finalize, which therefore never run while another call that writes the
\* same session holds the write lock.
AccessUnderLock ==
    \A w \in Workers :
        /\ pc[w] = "lookup" => w \in sessionsMutex.readers
        /\ pc[w] \in {"store", "answers", "commit"} => sessionsMutex.writer = w
        /\ (pc[w] = "resp" /\ loc[w].op \in SubmitOps) => sessionsMutex.writer = w
        /\ pc[w] \in {"new", "ctx"} => HoldsLock(w, sessionsMutex)
        /\ pc[w] = "ctx" => ~RacyRead(w)

\* C33: while a call whose turn has completed has not yet read the
\* responses, the latest reply of its thread does not change: no turn of
\* another call on the same session puts its reply there, so the reply the
\* call parses is the one its own turn produced.
OwnReplyParsed ==
    [][ \A w \in Workers :
          (pc[w] = "resp" /\ loc[w].op \in KeyedOps) =>
              threads'[heap[loc[w].session].ThreadID].last
                  = threads[heap[loc[w].session].ThreadID].last
      ]_vars

LockAlwaysReleased ==
    /\ \A w \in Workers :
          pc[w] \in {"idle", "rlock", "lock"} => ~HoldsLock(w, sessionsMutex)
    /\ sessionsMutex.writer # 0 => sessionsMutex.readers = {}
    /\ (\A w \in Workers : pc[w] = "idle") => sessionsMutex = [writer |-> 0, readers |-> {}]

\* C35 witness: a continue has returned a run-failed error from inside its
\* locked region, and another call has taken the write lock since.
LockTakenAfterFailure ==
    \E v, w \in Workers :
        /\ v # w
        /\ result[w].op = "cont"
        /\ result[w].status = "RunFailed"
        /\ pc[w] = "idle"
        /\ sessionsMutex.writer = v

\* C36: the process creates at most one assistant, however its start calls
\* interleave, and every run that an operation creates on the thread of a
\* stored session names a non-empty assistant id, the one of the run its
\* start created on that thread.
AssistantCreatedOnce ==
    /\ [](assistantID.created <= 1)
    /\ [][ \A w \in Workers :
             (loc[w].op \in KeyedOps /\ pc[w] = "run" /\ pc'[w] = "poll") =>
                 /\ assistantID.service # 0
                 /\ ThreadAfter(w).assistant = Thread(w).assistant
         ]_vars

\* C37: when the turn has completed and the thread yields no assistant
\* message, or a latest one without content, a start, a continue, a
\* get-suggestions and an accept go on without an error and commit an empty
\* list with their target phase (QUESTIONING for a start and a continue,
\* SUGGESTING for a get-suggestions, the target of the accept), whereas a
\* finalize returns an error and neither story, criteria nor raw text.
NoContentOutcome ==
    [][ \A w \in Workers :
          /\ ( /\ pc[w] = "resp"
               /\ Steps(w)
               /\ LatestText(w) = << >>
               /\ ~FailsWith(w, "TransportError") )
             => CASE loc[w].op = "start" -> pc'[w] = "new" /\ loc'[w].parsed = << >>
                  [] loc[w].op = "cont" ->
                        /\ Succeeds(w, "cont")
                        /\ heap'[loc[w].session].Questions = << >>
                        /\ heap'[loc[w].session].Phase = PhaseQuestioning
                  [] loc[w].op = "sugg" ->
                        /\ Succeeds(w, "sugg")
                        /\ heap'[loc[w].session].Suggestions = << >>
                        /\ heap'[loc[w].session].Phase = PhaseSuggesting
                  [] loc[w].op = "acc" -> pc'[w] = "lock" /\ loc'[w].parsed = << >>
                  [] OTHER ->
                        /\ pc'[w] = "idle"
                        /\ result'[w].status \notin {"ok", "none"}
                        /\ result'[w].story = << >>
                        /\ result'[w].criteria = << >>
                        /\ result'[w].detail = << >>
          /\ (loc[w].op = "start" /\ pc[w] = "store" /\ Steps(w) /\ loc[w].parsed = << >>) =>
                /\ Succeeds(w, "start")
                /\ heap'[result'[w].session].Questions = << >>
                /\ heap'[result'[w].session].Phase = PhaseQuestioning
          /\ (loc[w].op = "acc" /\ pc[w] = "commit" /\ Steps(w) /\ loc[w].parsed = << >>) =>
                /\ Succeeds(w, "acc")
                /\ heap'[loc[w].session].Questions = << >>
                /\ heap'[loc[w].session].Suggestions = << >>
                /\ heap'[loc[w].session].Phase =
                       (IF loc[w].nextPhase = "suggesting" THEN PhaseSuggesting
                        ELSE PhaseQuestioning)
      ]_vars

\* C38: an accept whose target is anything but exactly "suggesting" (the
\* empty string and values that name no phase included) is an accept for
\* questioning: it is never turned away for its target (when its session
\* is stored it goes on after the lookup, and it fails only with a
\* transport, run or parse error), its instruction is the questioning one, and its commit leaves
\* phase QUESTIONING with the parsed questions and no suggestions.
OtherTargetsAreQuestioning ==
    [][ \A w \in Workers :
          (loc[w].op = "acc" /\ Steps(w) /\ loc[w].nextPhase # "suggesting") =>
              /\ (pc[w] = "lookup" /\ loc[w].sid \in DOMAIN sessions) => pc'[w] = "msg1"
              /\ (pc'[w] = "idle" /\ loc[w].sid \in DOMAIN sessions) =>
                    result'[w].status \in {"ok", "TransportError", "RunFailed", "ParseError"}
              /\ pc[w] = "msg2" =>
                    \/ FailsWith(w, "TransportError")
                    \/ Appends(w, "questioning", "run")
              /\ pc[w] = "commit" =>
                    /\ Succeeds(w, "acc")
                    /\ heap'[loc[w].session].Phase = PhaseQuestioning
                    /\ heap'[loc[w].session].Questions = loc[w].parsed
                    /\ heap'[loc[w].session].Suggestions = << >>
      ]_vars

\* C38 witness: an accept whose target names no phase is about to commit
\* the two questions parsed from the reply to its questioning instruction.
UnknownTargetAsksQuestions ==
    \E w \in Workers :
        /\ loc[w].op = "acc"
        /\ loc[w].nextPhase = "finalizing"
        /\ pc[w] = "commit"
        /\ Len(loc[w].parsed) = 2
        /\ heap[loc[w].session].Phase = PhaseSuggesting

====
